---- MODULE Spec2Model ----
(***************************************************************************)
(* Voice-biometric enrollment (record.py) and verification (verify.py).    *)
(*                                                                         *)
(* Numbers are fixed point.  A similarity score s in [0,1] is the integer  *)
(* 1000*s ("milli").  The composite score and the ladder distances are in  *)
(* units of 1/100000 (a milli score times a weight in percent).  Pitch,    *)
(* spectral values and tempo are whole Hz / BPM; zcr, rms and the voicing  *)
(* ratio are in thousandths.  Vectors (mfcc_mean, chroma_mean) are pairs   *)
(* of small integers.                                                      *)
(***************************************************************************)
EXTENDS Integers, Sequences, FiniteSets, TLC

VARIABLES
    primary,        \* content of the file self.data_file
    backup,         \* content of the file self.data_file + ".backup"
    wloc,           \* per process: where the file it has open for writing is linked
    epc,            \* create_voice_profile: position of each process
    euser,          \* create_voice_profile: user_name
    enum,           \* create_voice_profile: num_samples
    valid_samples,  \* create_voice_profile: valid_samples
    transcripts,    \* create_voice_profile: transcripts
    attempt,        \* create_voice_profile: attempt
    profiles,       \* create_voice_profile: the loaded document plus the new entry
    eret,           \* create_voice_profile: value returned by the last call
    clock,          \* number of profile entries built so far (created_timestamp)
    calls,          \* number of create_voice_profile calls started
    start_files,    \* history: <<primary, backup>> when the call started
    save_files,     \* history: <<primary, backup>> when _save_profiles started
    fault,          \* history: a file operation of the call raised
    hist,           \* history: the last two completed enrollments
    vpc,            \* verify_speaker: position in the call
    vuser,          \* verify_speaker: target_user
    vprofile,       \* verify_speaker: profile_data
    vresult,        \* verify_speaker: what the last call produced
    vcount,         \* number of verify_speaker calls started
    ain,            \* _adaptive_threshold: its arguments
    aout,           \* _adaptive_threshold: its result
    accepted,       \* history: the recordings behind valid_samples
    vclip,          \* history: the recording verify_speaker took in this call
    vlog,           \* history: the calls main() has made to verify_speaker
    gin,            \* quality gate: the recording handed to both paths
    gout,           \* quality gate: what each path made of it
    sin,            \* similarity engine: a feature vector and a number of copies
    sout,           \* similarity engine: the score against the profile of the copies
    pin,            \* aggregator: a list of samples and a reordering of it
    pout,           \* aggregator: the profiles of the two lists
    audio_input,    \* AudioInput: enable_voice_auth and voice_recognition
    acall,          \* AudioInput: the call in progress
    xin,            \* _extract_robust_features: the clip and the family that fails
    xout,           \* _extract_robust_features: what it returned
    win,            \* _preprocess_audio: the buffer, its rate and the step that fails
    wout,           \* _preprocess_audio: what it returned
    display_mode,   \* APIEmotionalDisplay: "eyes" or "text"
    text_display_until, \* APIEmotionalDisplay: the deadline, 0 for None
    current_text,   \* APIEmotionalDisplay: current_text
    current_emotion,\* APIEmotionalDisplay: current_emotion
    target_emotion, \* APIEmotionalDisplay: target_state['emotion']
    is_blinking,    \* APIEmotionalDisplay: is_blinking
    blink_progress, \* APIEmotionalDisplay: blink_progress, in tenths
    state_lock,     \* APIEmotionalDisplay: who holds state_lock
    now,            \* datetime.now(), in seconds
    cpc,            \* emotion_controller: position in the loop body
    cnew,           \* emotion_controller: new_emotion
    qpc,            \* display_text: position of the request being served
    qreq,           \* display_text: text, emotion and duration of that request
    qresp,          \* display_text: status of the last response, 0 while pending
    served          \* number of POST /display requests received

fileVars == <<primary, backup, wloc>>
enrollVars == <<epc, euser, enum, valid_samples, transcripts, attempt, profiles,
                eret, clock, calls, start_files, save_files, fault, hist, accepted>>
verifyVars == <<vpc, vuser, vprofile, vresult, vcount, vclip, vlog>>
adaptiveVars == <<ain, aout>>
pureVars == <<gin, gout, sin, sout, pin, pout>>
audioVars == <<audio_input, acall>>
signalVars == <<xin, xout, win, wout>>
displayVars == <<display_mode, text_display_until, current_text, current_emotion,
                 target_emotion, is_blinking, blink_progress, state_lock, now,
                 cpc, cnew, qpc, qreq, qresp, served>>
vars == <<fileVars, enrollVars, verifyVars, adaptiveVars, pureVars, audioVars,
          signalVars, displayVars>>

----------------------------------------------------------------------------
(* Integer helpers *)

Abs(x) == IF x < 0 THEN -x ELSE x
Max(a, b) == IF a >= b THEN a ELSE b
Min(a, b) == IF a <= b THEN a ELSE b

RECURSIVE SqrtSearch(_, _, _)
SqrtSearch(n, lo, hi) ==
    IF lo >= hi THEN lo
    ELSE LET mid == (lo + hi + 1) \div 2
         IN  IF mid * mid <= n THEN SqrtSearch(n, mid, hi)
                               ELSE SqrtSearch(n, lo, mid - 1)

\* floor of the square root of n (n < 2^31, so the root is below 46341)
ISqrt(n) == SqrtSearch(n, 0, Min(n, 46340))

RECURSIVE SumSeq(_)
SumSeq(s) == IF s = <<>> THEN 0 ELSE Head(s) + SumSeq(Tail(s))

Dot(a, b) == SumSeq([i \in 1..Len(a) |-> a[i] * b[i]])
VSub(a, b) == [i \in 1..Len(a) |-> a[i] - b[i]]
IsZeroVec(a) == \A i \in 1..Len(a) : a[i] = 0

\* d.get(k, default) on a mapping modelled as a record
Get(d, k, default) == IF k \in DOMAIN d THEN d[k] ELSE default

----------------------------------------------------------------------------
(* Similarity engine: verify.py, _calculate_multi_metric_similarity *)

\* 1 - scipy cosine(a, b) in milli; scipy clips the distance to [0, 2].
\* Only called when neither vector is zero.
CosineSimilarity(a, b) ==
    LET den == ISqrt(Dot(a, a) * Dot(b, b) * 1000000)
        raw == (Dot(a, b) * 1000000) \div den
    IN  Max(-1000, Min(1000, raw))

\* euclidean(a, b) / (norm(a) + norm(b) + 1e-8) in milli
NormalizedEuclidean(a, b) ==
    LET d   == VSub(a, b)
        num == ISqrt(Dot(d, d) * 1000000)
        den == ISqrt(Dot(a, a) * 1000000) + ISqrt(Dot(b, b) * 1000000)
    IN  IF den = 0 THEN 0 ELSE (num * 1000) \div den

\* max(0, 1 - z / k) in milli, where z = diff / (std + 1e-6): with std = 0
\* the epsilon makes z enormous unless diff is 0.
ZScoreSimilarity(diff, std, k) ==
    IF std = 0 THEN (IF diff = 0 THEN 1000 ELSE 0)
    ELSE Max(0, 1000 - (diff * 1000) \div (k * std))

SpectralFeatures == <<"spectral_centroid_mean", "spectral_rolloff_mean",
                      "spectral_bandwidth_mean">>
TemporalFeatures == <<"zcr_mean", "rms_mean", "tempo">>

\* the literal 1 of the fallback std "abs(profile_val) * r + 1", in the unit
\* the feature is held in
UnitOf(feature) == IF feature \in {"zcr_mean", "rms_mean"} THEN 1000 ELSE 1

\* one pass of the "for feature in ..." loops: the list of scores appended
FamilyScores(features, current, profile, fallbackPct, k) ==
    LET scoreOf(f) ==
            LET current_val == Get(current, f, 0)
                profile_val == Get(profile, f, 0)
                profile_std == Get(profile, f \o "_std",
                                   (Abs(profile_val) * fallbackPct) \div 100 + UnitOf(f))
            IN  ZScoreSimilarity(Abs(current_val - profile_val), profile_std, k)
    IN  SelectSeq([i \in 1..Len(features) |->
                     IF Get(profile, features[i], 0) # 0
                        THEN scoreOf(features[i]) ELSE -1],
                  LAMBDA x : x >= 0)

MeanOr(scores, neutral) ==
    IF scores = <<>> THEN neutral ELSE SumSeq(scores) \div Len(scores)

\* the two subscripts outside .get(): a missing key raises KeyError
SimilarityRaises(current, profile) ==
    \/ "mfcc_mean" \notin DOMAIN current
    \/ "mfcc_mean" \notin DOMAIN profile
    \/ "f0_mean" \notin DOMAIN current
    \/ "f0_mean" \notin DOMAIN profile

\* a fallback that would score every family as a perfect match
OnesScores ==
    [mfcc_score |-> 1000, f0_score |-> 1000, spectral_score |-> 1000,
     chroma_score |-> 1000, temporal_score |-> 1000, voicing_score |-> 1000, nan |-> {}]

\* lines 256-259: the except branch returns six zeros
ZeroScores ==
    [mfcc_score |-> 0, f0_score |-> 0, spectral_score |-> 0,
     chroma_score |-> 0, temporal_score |-> 0, voicing_score |-> 0, nan |-> {}]

\* The mapping of six scores (milli); nan is the set of scores that are NaN
\* (cosine of a zero vector), their number is then meaningless.
CalculateMultiMetricSimilarity(current, profile) ==
    IF SimilarityRaises(current, profile) THEN ZeroScores
    ELSE
    LET current_mfcc == current.mfcc_mean
        profile_mfcc == profile.mfcc_mean
        mfcc_nan     == IsZeroVec(current_mfcc) \/ IsZeroVec(profile_mfcc)
        mfcc_cosine  == IF mfcc_nan THEN 0 ELSE CosineSimilarity(current_mfcc, profile_mfcc)
        mfcc_euclidean == NormalizedEuclidean(current_mfcc, profile_mfcc)
        current_f0   == current.f0_mean
        profile_f0   == profile.f0_mean
        profile_f0_std == Get(profile, "f0_mean_std", 20)
        has_chroma   == "chroma_mean" \in DOMAIN current /\ "chroma_mean" \in DOMAIN profile
        chroma_nan   == has_chroma /\ (IsZeroVec(current.chroma_mean)
                                       \/ IsZeroVec(profile.chroma_mean))
        voicing_diff == Abs(Get(current, "voicing_ratio", 0) - Get(profile, "voicing_ratio", 0))
    IN  [mfcc_score     |-> (mfcc_cosine + (1000 - mfcc_euclidean)) \div 2,
         f0_score       |-> IF current_f0 > 0 /\ profile_f0 > 0
                               THEN ZScoreSimilarity(Abs(current_f0 - profile_f0),
                                                     profile_f0_std, 3)
                               ELSE 500,
         spectral_score |-> MeanOr(FamilyScores(SpectralFeatures, current, profile, 20, 3), 500),
         chroma_score   |-> IF ~has_chroma THEN 500
                            ELSE IF chroma_nan THEN 0
                            ELSE CosineSimilarity(current.chroma_mean, profile.chroma_mean),
         temporal_score |-> MeanOr(FamilyScores(TemporalFeatures, current, profile, 30, 2), 500),
         voicing_score  |-> Max(0, 1000 - voicing_diff * 2),
         nan            |-> (IF mfcc_nan THEN {"mfcc_score"} ELSE {})
                            \cup (IF chroma_nan THEN {"chroma_score"} ELSE {})]

----------------------------------------------------------------------------
(* verify.py, _calculate_composite_score: weights in percent *)

W_mfcc == 40
W_f0 == 20
W_spectral == 15
W_temporal == 15
W_chroma == 5
W_voicing == 5

\* sum of score * weight, in 1/100000; a NaN term makes the sum NaN
CompositeIsNaN(similarities) == similarities.nan # {}

CalculateCompositeScore(similarities) ==
      similarities.mfcc_score * W_mfcc
    + similarities.f0_score * W_f0
    + similarities.spectral_score * W_spectral
    + similarities.temporal_score * W_temporal
    + similarities.chroma_score * W_chroma
    + similarities.voicing_score * W_voicing

----------------------------------------------------------------------------
(* verify.py, confidence ladders *)

\* self.confidence_levels, distances in 1/100000
LevelHigh == 15000
LevelMedium == 25000
LevelLow == 40000

\* the two shifts of _adaptive_threshold
ShiftMinus == 5000
ShiftPlus == 1000

\* the cut-offs of verify_speaker's own ladder, composite in 1/100000
AcceptLow == 50000
AcceptMedium == 65000
AcceptHigh == 80000

\* rank of a tier: larger is closer to high
TierRank(t) == CASE t = "high" -> 3 [] t = "medium" -> 2 [] t = "low" -> 1 [] OTHER -> 0

\* the ladder with the shift applied the other way round
LadderTierShiftReversed(isNaN, composite_score, threshold_adjustment) ==
    LET distance == 100000 - composite_score
    IN  IF isNaN THEN "reject"
        ELSE IF distance <= LevelHigh - threshold_adjustment THEN "high"
        ELSE IF distance <= LevelMedium - threshold_adjustment THEN "medium"
        ELSE IF distance <= LevelLow - threshold_adjustment THEN "low"
        ELSE "reject"

\* lines 309-319: the ladder on distance = 1 - composite, thresholds moved
\* by threshold_adjustment; every comparison with NaN is false
LadderTier(isNaN, composite_score, threshold_adjustment) ==
    LET distance == 100000 - composite_score
    IN  IF isNaN THEN "reject"
        ELSE IF distance <= LevelHigh + threshold_adjustment THEN "high"
        ELSE IF distance <= LevelMedium + threshold_adjustment THEN "medium"
        ELSE IF distance <= LevelLow + threshold_adjustment THEN "low"
        ELSE "reject"

\* lines 284-289
SampleCountAdjustment(sample_count) ==
    IF sample_count >= 5 THEN -ShiftMinus
    ELSE IF sample_count < 3 THEN ShiftPlus
    ELSE 0

\* lines 291-299
KeyMetricAdjustment(similarities) ==
    LET mfcc_ok == "mfcc_score" \notin similarities.nan
        mfcc_score == similarities.mfcc_score
        f0_score == similarities.f0_score
    IN  IF mfcc_ok /\ mfcc_score > 600 /\ f0_score > 500 THEN -ShiftMinus
        ELSE IF (mfcc_ok /\ mfcc_score < 200) \/ f0_score < 100 THEN ShiftPlus
        ELSE 0

ThresholdAdjustment(sample_count, similarities) ==
    SampleCountAdjustment(sample_count) + KeyMetricAdjustment(similarities)

\* _adaptive_threshold(profile_data, composite_score, similarities): the tier
AdaptiveThreshold(profile_data, isNaN, composite_score, similarities) ==
    LadderTier(isNaN, composite_score,
               ThresholdAdjustment(Get(profile_data, "sample_count", 1), similarities))

\* acceptance decided on the distance ladder's 'low' level instead
IsVerifiedByDistance(isNaN, composite_score) ==
    ~isNaN /\ 100000 - composite_score <= LevelLow

\* verify_speaker lines 477-488
IsVerified(isNaN, composite_score) == ~isNaN /\ composite_score > AcceptLow

ConfidenceLevel(isNaN, composite_score) ==
    IF isNaN THEN "reject"
    ELSE IF composite_score > AcceptHigh THEN "high"
    ELSE IF composite_score > AcceptMedium THEN "medium"
    ELSE IF composite_score > AcceptLow THEN "low"
    ELSE "reject"

----------------------------------------------------------------------------
(* Profile aggregator: record.py, _calculate_profile_statistics *)

RECURSIVE Insert(_, _)
Insert(x, s) ==
    IF s = <<>> THEN <<x>>
    ELSE IF x <= Head(s) THEN <<x>> \o s
    ELSE <<Head(s)>> \o Insert(x, Tail(s))

RECURSIVE SortValues(_)
SortValues(s) == IF s = <<>> THEN <<>> ELSE Insert(Head(s), SortValues(Tail(s)))

\* Floating point keeps MantissaBits significant bits (53 in a double; the
\* model's numbers are small, so is its mantissa).
MantissaBits == 14

RECURSIVE Pow2(_)
Pow2(n) == IF n = 0 THEN 1 ELSE 2 * Pow2(n - 1)

RECURSIVE FloatSpacing(_, _)
\* the distance between neighbouring floats at magnitude m
FloatSpacing(m, q) == IF m \div q < Pow2(MantissaBits) THEN q ELSE FloatSpacing(m, 2 * q)

\* x rounded to the nearest float, ties to the even mantissa
RoundFloat(x) ==
    LET m    == Abs(x)
        q    == FloatSpacing(m, 1)
        down == (m \div q) * q
        rest == m - down
        near == IF 2 * rest < q THEN down
                ELSE IF 2 * rest > q THEN down + q
                ELSE IF (down \div q) % 2 = 0 THEN down ELSE down + q
    IN  IF x < 0 THEN -near ELSE near

RECURSIVE FloatSum(_, _)
\* the elements added one by one in list order, each sum rounded
FloatSum(acc, s) ==
    IF s = <<>> THEN acc ELSE FloatSum(RoundFloat(acc + Head(s)), Tail(s))

\* np.mean
Mean(values) == FloatSum(0, values) \div Len(values)

\* np.std (population): sqrt(mean(x^2) - mean(x)^2), where
\* n * sum(x^2) - sum(x)^2 is the sum of (x_i - x_j)^2 over the pairs i < j
Std(values) ==
    LET n == Len(values)
        d == SumSeq([i \in 1..n |->
                 SumSeq([j \in 1..n |->
                     IF i < j THEN (values[i] - values[j]) * (values[i] - values[j])
                              ELSE 0])])
    IN  ISqrt(d \div (n * n))

\* np.percentile(values, 25 * quarters): linear interpolation between the
\* order statistics around position (n - 1) * quarters / 4
Percentile(values, quarters) ==
    LET v   == SortValues(values)
        n   == Len(v)
        pos == (n - 1) * quarters
        lo  == pos \div 4 + 1
        fr  == pos % 4
    IN  IF fr = 0 THEN v[lo] ELSE v[lo] + (fr * (v[lo + 1] - v[lo])) \div 4

Median(values) == Percentile(values, 2)

ListKeys == {"mfcc_mean", "chroma_mean"}

\* the keys _calculate_profile_statistics writes for one feature key
StatNames(key) ==
    IF key \in ListKeys
       THEN {key, key \o "_std", key \o "_median"}
       ELSE {key, key \o "_std", key \o "_median", key \o "_q25", key \o "_q75"}

\* the statistic stored under name for feature key over the samples' values
StatValue(name, key, values) ==
    IF key \in ListKeys THEN
        LET column(j) == [i \in 1..Len(values) |-> values[i][j]]
            dim == Len(values[1])
        IN  IF name = key THEN [j \in 1..dim |-> Mean(column(j))]
            ELSE IF name = key \o "_std" THEN [j \in 1..dim |-> Std(column(j))]
            ELSE [j \in 1..dim |-> Median(column(j))]
    ELSE
        IF name = key THEN Mean(values)
        ELSE IF name = key \o "_std" THEN Std(values)
        ELSE IF name = key \o "_median" THEN Median(values)
        ELSE IF name = key \o "_q25" THEN Percentile(values, 1)
        ELSE Percentile(values, 3)

CalculateProfileStatistics(samples) ==
    LET feature_keys == DOMAIN samples[1]
        names == UNION {StatNames(k) : k \in feature_keys}
    IN  [name \in names |->
            LET key == CHOOSE k \in feature_keys : name \in StatNames(k)
            IN  StatValue(name, key, [i \in 1..Len(samples) |-> samples[i][key]])]

----------------------------------------------------------------------------
(* Bounds and input sets *)

MaxSamples == 3       \* longest list of samples behind a stored profile
MaxNumSamples == 2    \* largest num_samples asked of create_voice_profile
MaxEnroll == 2        \* enrollments per run
MaxVerify == 2        \* verifications per run

Users == {"alice", "bob"}
AllProcs == {1, 2}

\* A feature vector as _extract_robust_features returns it, restricted to
\* the keys the similarity engine reads.
MkFeatures(mfcc, f0, spectral, chroma, temporal, voicing) ==
    [mfcc_mean |-> mfcc, f0_mean |-> f0, voicing_ratio |-> voicing,
     spectral_centroid_mean |-> spectral[1], spectral_rolloff_mean |-> spectral[2],
     spectral_bandwidth_mean |-> spectral[3], chroma_mean |-> chroma,
     zcr_mean |-> temporal[1], rms_mean |-> temporal[2], tempo |-> temporal[3]]

FeatA == MkFeatures(<<3, 4>>, 150, <<1500, 3000, 1200>>, <<1, 0>>, <<50, 100, 120>>, 800)
FeatB == MkFeatures(<<4, 3>>, 170, <<1800, 3600, 1200>>, <<1, 1>>, <<80, 100, 0>>, 600)
FeatC == MkFeatures(<<-3, -4>>, 0, <<3000, 3000, 2400>>, <<0, 1>>, <<50, 300, 120>>, 0)

EnrollFeatures == {FeatA, FeatB}
ProfileFeatures == {FeatA, FeatB, FeatC}

LiveFeatures ==
    {MkFeatures(m, f, s, c, t, v) :
        m \in {<<3, 4>>, <<4, 3>>, <<-3, -4>>, <<0, 5>>},
        f \in {0, 150, 170, 400},
        s \in {<<1500, 3000, 1200>>, <<3000, 3000, 2400>>},
        c \in {<<1, 0>>, <<1, 1>>, <<0, 0>>},
        t \in {<<50, 100, 120>>, <<80, 300, 0>>},
        v \in {0, 800}}

RECURSIVE SeqsUpTo(_, _)
\* all sequences over S of length 1..n
SeqsUpTo(S, n) ==
    IF n = 0 THEN {}
    ELSE LET shorter == SeqsUpTo(S, n - 1)
         IN  {<<x>> : x \in S} \cup shorter \cup {Append(q, x) : q \in shorter, x \in S}

----------------------------------------------------------------------------
(* The profile store: two files *)

Missing == [kind |-> "missing"]
\* a file that holds a proper prefix of a document (possibly nothing)
Partial == [kind |-> "partial"]
\* a file that holds the complete JSON document users (user -> entry)
Doc(users) == [kind |-> "doc", users |-> users]
EmptyUsers == [u \in {} |-> 0]

\* os.path.exists
Exists(file) == file.kind # "missing"

\* record.py lines 388-399: the digest stands for its own input
GenerateProfileHash(features, user_name) ==
    <<user_name, Get(features, "mfcc_mean", <<>>), Get(features, "f0_mean", 0),
      Get(features, "spectral_centroid_mean", 0)>>

\* record.py lines 334-341: the entry stored for a user
MkEntry(profile_features, samples, texts, user_name, stamp) ==
    [json |-> "object",
     features |-> profile_features,
     sample_count |-> Len(samples),
     transcripts |-> texts,
     created_timestamp |-> stamp,
     profile_hash |-> GenerateProfileHash(profile_features, user_name),
     version |-> "2.0"]

\* an assignment that would keep the entry a user already has
PutIfAbsent(users, u, entry) ==
    [x \in DOMAIN users \cup {u} |-> IF x \in DOMAIN users THEN users[x] ELSE entry]

\* profiles[user_name] = entry
Put(users, u, entry) ==
    [x \in DOMAIN users \cup {u} |-> IF x = u THEN entry ELSE users[x]]

----------------------------------------------------------------------------
(* Enrollment: record.py *)

\* RobustVoiceRecorder.__init__ lines 27-29 (durations in ms, ratios in milli)
RecMinSpeechDuration == 2000
RecMaxSilenceRatio == 1000
RecMinSnrDb == 5

\* the recorder's gate without its SNR requirement
RecorderGateIgnoresSnr(speech_ratio, snr_db, duration_ms) ==
    /\ speech_ratio >= 1000 - RecMaxSilenceRatio
    /\ duration_ms >= RecMinSpeechDuration

\* record.py lines 98-102, on the values _detect_voice_activity computed
RecorderGate(speech_ratio, snr_db, duration_ms) ==
    /\ speech_ratio >= 1000 - RecMaxSilenceRatio
    /\ snr_db >= RecMinSnrDb
    /\ duration_ms >= RecMinSpeechDuration

None == [none |-> TRUE]

\* What one recording gives: captured = audio arrived and converted to a
\* non-empty array; extractable = _extract_robust_features returns a vector.
MkClip(captured, speech_ratio, snr_db, duration_ms, extractable, features, text) ==
    [captured |-> captured, speech_ratio |-> speech_ratio, snr_db |-> snr_db,
     duration_ms |-> duration_ms, extractable |-> extractable,
     features |-> features, text |-> text]

EnrollClips ==
    {MkClip(TRUE, 300, 12, 5000, TRUE, f, "hello") : f \in EnrollFeatures}
    \cup {MkClip(TRUE, 300, 3, 5000, TRUE, FeatA, "hello"),
          MkClip(TRUE, 0, 0, 5000, TRUE, FeatC, "[Could not understand speech]"),
          MkClip(TRUE, 300, 12, 5000, FALSE, FeatA, "hello"),
          MkClip(FALSE, 0, 0, 0, FALSE, FeatA, "")}

\* record_sample: (features, text, is_valid)
RecordSample(clip) ==
    IF ~clip.captured
       THEN [features |-> None, text |-> "[Recording failed]", is_valid |-> FALSE]
    ELSE IF ~RecorderGate(clip.speech_ratio, clip.snr_db, clip.duration_ms)
       THEN [features |-> None, text |-> "[Low quality recording]", is_valid |-> FALSE]
    ELSE IF ~clip.extractable
       THEN [features |-> None, text |-> "[Feature extraction failed]", is_valid |-> FALSE]
    ELSE [features |-> clip.features, text |-> clip.text, is_valid |-> TRUE]

\* a loop condition without the attempt cap
LoopContinuesNoCap(p) == Len(valid_samples[p]) < enum[p]

\* line 300: the loop condition
LoopContinues(p) ==
    Len(valid_samples[p]) < enum[p] /\ attempt[p] < enum[p] * 3

\* the sample floor off by one
TooFewSamplesOffByOne(samples) == Len(samples) <= 2

\* a floor that only refuses an empty list
TooFewSamplesOnlyEmpty(samples) == Len(samples) < 1

\* line 318: too few samples to build a profile
TooFewSamples(samples) == Len(samples) < 2

\* _load_profiles: a missing or unparseable file reads as the empty mapping
LoadProfiles(file) == IF file.kind = "doc" THEN file.users ELSE EmptyUsers

\* a save that never sets the previous file aside
SaveNeverBacksUp(file) == FALSE

\* line 417: the previous file is renamed to the backup when it exists
SaveWantsBackup(file) == Exists(file)

EnrollStart(p, user, n) ==
    /\ epc[p] = "idle"
    /\ calls < MaxEnroll
    /\ calls' = calls + 1
    /\ epc' = [epc EXCEPT ![p] = "loop"]
    /\ euser' = [euser EXCEPT ![p] = user]
    /\ enum' = [enum EXCEPT ![p] = n]
    /\ valid_samples' = [valid_samples EXCEPT ![p] = <<>>]
    /\ transcripts' = [transcripts EXCEPT ![p] = <<>>]
    /\ attempt' = [attempt EXCEPT ![p] = 0]
    /\ profiles' = [profiles EXCEPT ![p] = EmptyUsers]
    /\ eret' = [eret EXCEPT ![p] = "none"]
    /\ start_files' = [start_files EXCEPT ![p] = <<primary, backup>>]
    /\ accepted' = [accepted EXCEPT ![p] = <<>>]
    /\ UNCHANGED <<fileVars, clock, save_files, fault, hist, verifyVars, adaptiveVars, pureVars, audioVars, signalVars, displayVars>>

\* one iteration of the while loop, lines 300-316; the answer to the retry
\* prompt changes nothing
EnrollAttempt(p, clip, retry) ==
    /\ epc[p] = "loop"
    /\ LoopContinues(p)
    /\ LET r == RecordSample(clip)
       IN  /\ attempt' = [attempt EXCEPT ![p] = @ + 1]
           /\ IF r.is_valid /\ r.features # None
                 THEN /\ valid_samples' = [valid_samples EXCEPT ![p] = Append(@, r.features)]
                      /\ transcripts' = [transcripts EXCEPT ![p] = Append(@, r.text)]
                      /\ accepted' = [accepted EXCEPT ![p] = Append(@, clip)]
                 ELSE UNCHANGED <<valid_samples, transcripts, accepted>>
    /\ UNCHANGED <<fileVars, epc, euser, enum, profiles, eret, clock, calls, start_files,
                   save_files, fault, hist, verifyVars, adaptiveVars, pureVars, audioVars, signalVars, displayVars>>

\* lines 318-328: leave the loop, give up or go on to build the profile
EnrollLoopExit(p) ==
    /\ epc[p] = "loop"
    /\ ~LoopContinues(p)
    /\ IF TooFewSamples(valid_samples[p])
          THEN /\ epc' = [epc EXCEPT ![p] = "done"]
               /\ eret' = [eret EXCEPT ![p] = "false"]
          ELSE /\ epc' = [epc EXCEPT ![p] = "load"]
               /\ UNCHANGED eret
    /\ UNCHANGED <<fileVars, euser, enum, valid_samples, transcripts, attempt, profiles,
                   clock, calls, start_files, save_files, fault, hist, accepted, verifyVars, adaptiveVars, pureVars, audioVars, signalVars, displayVars>>

\* lines 331-341: read the store once, set the user's entry in the mapping
EnrollLoad(p) ==
    /\ epc[p] = "load"
    /\ profiles' = [profiles EXCEPT ![p] =
            Put(LoadProfiles(primary), euser[p],
                MkEntry(CalculateProfileStatistics(valid_samples[p]), valid_samples[p],
                        transcripts[p], euser[p], clock + 1))]
    /\ clock' = clock + 1
    /\ epc' = [epc EXCEPT ![p] = "save"]
    /\ UNCHANGED <<fileVars, euser, enum, valid_samples, transcripts, attempt, eret,
                   calls, start_files, save_files, fault, hist, accepted, verifyVars, adaptiveVars, pureVars, audioVars, signalVars, displayVars>>

\* _save_profiles line 417: os.path.exists(self.data_file)
SaveExists(p) ==
    /\ epc[p] = "save"
    /\ save_files' = [save_files EXCEPT ![p] = <<primary, backup>>]
    /\ epc' = [epc EXCEPT ![p] = IF SaveWantsBackup(primary) THEN "rename" ELSE "open"]
    /\ UNCHANGED <<fileVars, euser, enum, valid_samples, transcripts, attempt, profiles,
                   eret, clock, calls, start_files, fault, hist, accepted, verifyVars, adaptiveVars, pureVars, audioVars, signalVars, displayVars>>

\* the except branch of _save_profiles: return False
SaveFailed(p) ==
    /\ epc' = [epc EXCEPT ![p] = "done"]
    /\ eret' = [eret EXCEPT ![p] = "false"]
    /\ fault' = [fault EXCEPT ![p] = TRUE]

\* a file open for writing follows its inode when the name is renamed
Relinked(loc) == IF loc = "primary" THEN "backup"
                 ELSE IF loc = "backup" THEN "unlinked" ELSE loc

\* line 419: os.rename(self.data_file, backup_file) succeeds
SaveRename(p) ==
    /\ epc[p] = "rename"
    /\ Exists(primary)
    /\ backup' = primary
    /\ primary' = Missing
    /\ wloc' = [q \in AllProcs |-> Relinked(wloc[q])]
    /\ epc' = [epc EXCEPT ![p] = "open"]
    /\ UNCHANGED <<euser, enum, valid_samples, transcripts, attempt, profiles, eret,
                   clock, calls, start_files, save_files, fault, hist, accepted, verifyVars, adaptiveVars, pureVars, audioVars, signalVars, displayVars>>

\* line 419: os.rename raises (the file is gone, or the system refuses)
SaveRenameFails(p) ==
    /\ epc[p] = "rename"
    /\ SaveFailed(p)
    /\ UNCHANGED <<fileVars, euser, enum, valid_samples, transcripts, attempt, profiles,
                   clock, calls, start_files, save_files, hist, accepted, verifyVars, adaptiveVars, pureVars, audioVars, signalVars, displayVars>>

\* line 421: open(self.data_file, 'w') creates or truncates the file
SaveOpen(p) ==
    /\ epc[p] = "open"
    /\ primary' = Partial
    /\ wloc' = [wloc EXCEPT ![p] = "primary"]
    /\ epc' = [epc EXCEPT ![p] = "write"]
    /\ UNCHANGED <<backup, euser, enum, valid_samples, transcripts, attempt, profiles,
                   eret, clock, calls, start_files, save_files, fault, hist, accepted, verifyVars, adaptiveVars, pureVars, audioVars, signalVars, displayVars>>

\* line 421: open raises
SaveOpenFails(p) ==
    /\ epc[p] = "open"
    /\ SaveFailed(p)
    /\ UNCHANGED <<fileVars, euser, enum, valid_samples, transcripts, attempt, profiles,
                   clock, calls, start_files, save_files, hist, accepted, verifyVars, adaptiveVars, pureVars, audioVars, signalVars, displayVars>>

\* the file the process writes to receives content
WriteTo(p, content) ==
    /\ primary' = IF wloc[p] = "primary" THEN content ELSE primary
    /\ backup' = IF wloc[p] = "backup" THEN content ELSE backup
    /\ wloc' = [wloc EXCEPT ![p] = "none"]

\* line 422: json.dump runs to the end and the file is closed
SaveWrite(p) ==
    /\ epc[p] = "write"
    /\ WriteTo(p, Doc(profiles[p]))
    /\ epc' = [epc EXCEPT ![p] = "done"]
    /\ eret' = [eret EXCEPT ![p] = "true"]
    /\ UNCHANGED <<euser, enum, valid_samples, transcripts, attempt, profiles,
                   clock, calls, start_files, save_files, fault, hist, accepted, verifyVars, adaptiveVars, pureVars, audioVars, signalVars, displayVars>>

\* line 422: a write raises part-way; the file keeps what was flushed
SaveWriteFails(p) ==
    /\ epc[p] = "write"
    /\ WriteTo(p, Partial)
    /\ SaveFailed(p)
    /\ UNCHANGED <<euser, enum, valid_samples, transcripts, attempt, profiles,
                   clock, calls, start_files, save_files, hist, accepted, verifyVars, adaptiveVars, pureVars, audioVars, signalVars, displayVars>>

\* the last two entries of a sequence
LastTwo(s) == IF Len(s) <= 2 THEN s ELSE SubSeq(s, Len(s) - 1, Len(s))

\* create_voice_profile returns to its caller; its locals are gone
EnrollReturn(p) ==
    /\ epc[p] = "done"
    /\ epc' = [epc EXCEPT ![p] = "idle"]
    /\ hist' = LastTwo(Append(hist, [user |-> euser[p], ok |-> eret[p] = "true",
                                     samples |-> Len(valid_samples[p]),
                                     primary |-> primary, backup |-> backup]))
    /\ euser' = [euser EXCEPT ![p] = "alice"]
    /\ enum' = [enum EXCEPT ![p] = 1]
    /\ valid_samples' = [valid_samples EXCEPT ![p] = <<>>]
    /\ transcripts' = [transcripts EXCEPT ![p] = <<>>]
    /\ attempt' = [attempt EXCEPT ![p] = 0]
    /\ profiles' = [profiles EXCEPT ![p] = EmptyUsers]
    /\ eret' = [eret EXCEPT ![p] = "none"]
    /\ start_files' = [start_files EXCEPT ![p] = <<Missing, Missing>>]
    /\ save_files' = [save_files EXCEPT ![p] = <<Missing, Missing>>]
    /\ fault' = [fault EXCEPT ![p] = FALSE]
    /\ accepted' = [accepted EXCEPT ![p] = <<>>]
    /\ UNCHANGED <<fileVars, clock, calls, verifyVars, adaptiveVars, pureVars, audioVars, signalVars, displayVars>>

\* the steps of one process after the call has started
EnrollSteps(p) ==
    \/ EnrollLoopExit(p)
    \/ EnrollLoad(p)
    \/ SaveExists(p)
    \/ SaveRename(p)
    \/ SaveRenameFails(p)
    \/ SaveOpen(p)
    \/ SaveOpenFails(p)
    \/ SaveWrite(p)
    \/ SaveWriteFails(p)
    \/ EnrollReturn(p)

Enroll(p) ==
    \/ \E user \in Users, n \in 1..MaxNumSamples : EnrollStart(p, user, n)
    \/ \E clip \in EnrollClips, retry \in {"y", "n"} : EnrollAttempt(p, clip, retry)
    \/ EnrollSteps(p)

\* two users enrolling at once, each asked for two samples
ConcurrentClips ==
    {MkClip(TRUE, 300, 12, 5000, TRUE, FeatA, "hello"),
     MkClip(TRUE, 300, 3, 5000, TRUE, FeatA, "hello")}

EnrollConcurrent(p) ==
    \/ \E user \in Users : EnrollStart(p, user, 2)
    \/ \E clip \in ConcurrentClips : EnrollAttempt(p, clip, "n")
    \/ EnrollSteps(p)

----------------------------------------------------------------------------
(* Verification: verify.py *)

\* RobustVoiceVerifier.__init__ lines 38-40 (durations in ms, ratios in milli)
VerMinSnrDb == 2
VerMinSpeechRatio == 100
VerMinDuration == 1000

\* verify.py lines 101-103, on the values _detect_voice_activity computed
VerifierGate(speech_ratio, snr_db, duration_ms) ==
    /\ speech_ratio >= VerMinSpeechRatio
    /\ snr_db >= VerMinSnrDb
    /\ duration_ms >= VerMinDuration

NoQuality == [empty |-> TRUE]

\* a verification path that drops a recording failing its gate
RecordVerificationSampleBlocks(clip) ==
    IF ~clip.captured
       THEN [features |-> None, text |-> "[Recording failed]", quality |-> NoQuality]
    ELSE IF ~VerifierGate(clip.speech_ratio, clip.snr_db, clip.duration_ms)
       THEN [features |-> None, text |-> "[Low quality recording]", quality |-> NoQuality]
    ELSE [features |-> clip.features, text |-> clip.text, quality |-> NoQuality]

\* record_verification_sample: (features, text, quality_info); a clip that
\* fails the gate is flagged and goes on to feature extraction
RecordVerificationSample(clip) ==
    IF ~clip.captured
       THEN [features |-> None, text |-> "[Recording failed]", quality |-> NoQuality]
    ELSE
       LET quality_info ==
               [speech_ratio |-> clip.speech_ratio, snr_db |-> clip.snr_db,
                duration |-> clip.duration_ms,
                is_good_quality |-> VerifierGate(clip.speech_ratio, clip.snr_db,
                                                 clip.duration_ms)]
       IN  IF ~clip.extractable
              THEN [features |-> None, text |-> "[Feature extraction failed]",
                    quality |-> quality_info]
              ELSE [features |-> clip.features, text |-> clip.text,
                    quality |-> quality_info]

VerifyClips ==
    {MkClip(TRUE, 300, 12, 4000, TRUE, f, "hello") : f \in LiveFeatures}
    \cup {MkClip(TRUE, 50, 1, 4000, TRUE, f, "[Could not understand speech]") :
            f \in {FeatA, FeatC}}
    \cup {MkClip(TRUE, 300, 12, 4000, FALSE, FeatA, "hello"),
          MkClip(FALSE, 0, 0, 0, FALSE, FeatA, "")}

NoResult ==
    [outcome |-> "none", verified |-> FALSE, confidence |-> "none", has_error |-> FALSE,
     similarity_score |-> 0, nan |-> FALSE, detailed_scores |-> ZeroScores,
     transcript |-> "", quality |-> NoQuality]

\* the mappings returned at lines 423, 434, 443 and 461
ErrorResult(transcript, quality) ==
    [NoResult EXCEPT !.outcome = "returned", !.has_error = TRUE,
                     !.transcript = transcript, !.quality = quality]

\* an exception leaves verify_speaker
Raised == [NoResult EXCEPT !.outcome = "raised"]

\* lines 460-528, once profile_data is in hand and the sample r is recorded
VerifySpeakerResult(profile_data, r) ==
    IF r.features = None THEN ErrorResult(r.text, r.quality)
    ELSE IF "features" \notin DOMAIN profile_data THEN Raised
    ELSE LET similarities == CalculateMultiMetricSimilarity(r.features, profile_data.features)
             composite_score == CalculateCompositeScore(similarities)
             isNaN == CompositeIsNaN(similarities)
         IN  [outcome |-> "returned",
              verified |-> IsVerified(isNaN, composite_score),
              confidence |-> ConfidenceLevel(isNaN, composite_score),
              has_error |-> FALSE,
              similarity_score |-> composite_score,
              nan |-> isNaN,
              detailed_scores |-> similarities,
              transcript |-> r.text,
              quality |-> r.quality]

\* line 422: os.path.exists(self.data_file)
VerifyStart(user) ==
    /\ vpc = "idle"
    /\ vcount < MaxVerify
    /\ vcount' = vcount + 1
    /\ vuser' = user
    /\ vprofile' = None
    /\ vclip' = None
    /\ IF Exists(primary)
          THEN vpc' = "open" /\ vresult' = NoResult
          ELSE vpc' = "done" /\ vresult' = ErrorResult("", NoQuality)
    /\ UNCHANGED <<vlog, fileVars, enrollVars, adaptiveVars, pureVars, audioVars, signalVars, displayVars>>

\* line 431: what open(self.data_file, 'w') would leave of the file
OpenForWriting(file) == Partial

\* line 431: open(self.data_file, 'r') leaves the file as it is
OpenForRead(file) == file

\* lines 430-453: open and parse the file, look the user up
VerifyLoad ==
    /\ vpc = "open"
    /\ primary' = OpenForRead(primary)
    /\ IF primary.kind # "doc" \/ vuser \notin DOMAIN LoadProfiles(primary)
          THEN vpc' = "done" /\ vresult' = ErrorResult("", NoQuality) /\ UNCHANGED vprofile
       ELSE IF primary.users[vuser].json # "object"
          THEN vpc' = "done" /\ vresult' = Raised /\ UNCHANGED vprofile
          ELSE vpc' = "record" /\ vprofile' = primary.users[vuser] /\ UNCHANGED vresult
    /\ UNCHANGED <<vuser, vcount, vclip, vlog, backup, wloc, enrollVars, adaptiveVars, pureVars, audioVars, signalVars, displayVars>>

\* lines 455-528: record the sample, score it, build the result
VerifyRecord(clip) ==
    /\ vpc = "record"
    /\ vresult' = VerifySpeakerResult(vprofile, RecordVerificationSample(clip))
    /\ vpc' = "done"
    /\ vclip' = clip
    /\ UNCHANGED <<vuser, vprofile, vcount, vlog, fileVars, enrollVars, adaptiveVars, pureVars, audioVars, signalVars, displayVars>>

\* verify_speaker is back with its caller
VerifyReturn ==
    /\ vpc = "done"
    /\ vpc' = "idle"
    /\ UNCHANGED <<vuser, vprofile, vresult, vcount, vclip, vlog, fileVars, enrollVars, adaptiveVars, pureVars, audioVars, signalVars, displayVars>>

----------------------------------------------------------------------------
(* _adaptive_threshold as a function of its arguments *)

GridPoints == 100     \* composite scores 0, 0.01, ..., GridPoints / 100

AdaptiveInputs ==
    [profile_data : {[version |-> "2.0"]} \cup {[sample_count |-> n] : n \in 1..6},
     isNaN : {FALSE},
     composite_score : {1000 * i : i \in 0..GridPoints},
     similarities : {[ZeroScores EXCEPT !.mfcc_score = m, !.f0_score = f] :
                        m \in {100, 400, 700}, f \in {50, 300, 600}}]

AdaptiveCall ==
    /\ aout = "none"
    /\ aout' = AdaptiveThreshold(ain.profile_data, ain.isNaN, ain.composite_score,
                                 ain.similarities)
    /\ UNCHANGED <<ain, fileVars, enrollVars, verifyVars, pureVars, audioVars, signalVars, displayVars>>

----------------------------------------------------------------------------
(* main() of verify.py: verify_speaker called again and again *)

\* lines 594-610: the result is shown and main() calls itself for another try
MainTryAgain ==
    /\ vpc = "done"
    /\ vlog' = Append(vlog, [user |-> vuser, profile |-> vprofile, clip |-> vclip,
                             result |-> vresult])
    /\ vpc' = "idle"
    /\ UNCHANGED <<vuser, vprofile, vresult, vcount, vclip, fileVars, enrollVars,
                   adaptiveVars, pureVars, audioVars, signalVars, displayVars>>

RepeatClips ==
    {MkClip(TRUE, 300, 12, 4000, TRUE, FeatA, "hello"),
     MkClip(TRUE, 50, 1, 4000, TRUE, FeatA, "[Could not understand speech]"),
     MkClip(TRUE, 300, 12, 4000, TRUE, FeatB, "hello"),
     MkClip(TRUE, 300, 12, 4000, TRUE, FeatC, "hello"),
     MkClip(TRUE, 300, 12, 4000, FALSE, FeatA, "hello")}

----------------------------------------------------------------------------
(* The quality gate: _detect_voice_activity of both classes on one recording *)

\* np.percentile(rms, 70), times 100: linear interpolation between the order
\* statistics around position (n - 1) * 0.7
RmsThreshold100(rms) ==
    LET v   == SortValues(rms)
        n   == Len(v)
        pos == (n - 1) * 70
        lo  == pos \div 100 + 1
        fr  == pos % 100
    IN  IF fr = 0 THEN v[lo] * 100 ELSE v[lo] * 100 + fr * (v[lo + 1] - v[lo])

\* voice_frames = rms > rms_threshold
VoiceFrames(rms) == {i \in 1..Len(rms) : rms[i] * 100 > RmsThreshold100(rms)}

\* speech_ratio = np.mean(voice_frames), in milli
SpeechRatio(rms) == (Cardinality(VoiceFrames(rms)) * 1000) \div Len(rms)

\* 10 ^ (d / 10) in milli for d = 1, 2, ...: the power ratio of d decibels
DecibelSteps == <<1259, 1585, 1995, 2512, 3162, 3981, 5012, 6310, 7943, 10000>>

\* sum of rms[i] ^ 2 over the frames in the set
PowerSum(rms, frames) ==
    SumSeq([i \in 1..Len(rms) |-> IF i \in frames THEN rms[i] * rms[i] ELSE 0])

\* snr_db in whole decibels (rounded down, at most Len(DecibelSteps)); 0 when
\* no frame is a voice frame.  A quiet part of power 0 leaves the 1e-10 floor
\* as the noise power, far below any signal.
SnrDb(rms) ==
    LET voice == VoiceFrames(rms)
        quiet == (1..Len(rms)) \ voice
        sv    == PowerSum(rms, voice) * Cardinality(quiet)
        sq    == PowerSum(rms, quiet) * Cardinality(voice)
    IN  IF voice = {} THEN 0
        ELSE IF sq = 0 THEN Len(DecibelSteps)
        ELSE Cardinality({d \in 1..Len(DecibelSteps) : sv * 1000 >= DecibelSteps[d] * sq})

\* RobustVoiceRecorder._detect_voice_activity: (is_good_quality, speech_ratio, snr_db)
RecorderDetectVoiceActivity(audio) ==
    IF audio.rms = <<>>
       THEN [is_good_quality |-> FALSE, speech_ratio |-> 0, snr_db |-> 0]
       ELSE [is_good_quality |-> RecorderGate(SpeechRatio(audio.rms), SnrDb(audio.rms),
                                              audio.duration_ms),
             speech_ratio |-> SpeechRatio(audio.rms), snr_db |-> SnrDb(audio.rms)]

\* a verifier that would count the frames at the threshold as voice too
VerifierDetectInclusive(audio) ==
    LET ratio == IF audio.rms = <<>> THEN 0
                 ELSE (Cardinality({i \in 1..Len(audio.rms) :
                          audio.rms[i] * 100 >= RmsThreshold100(audio.rms)}) * 1000)
                      \div Len(audio.rms)
    IN  IF audio.rms = <<>>
           THEN [is_good_quality |-> FALSE, speech_ratio |-> 0, snr_db |-> 0]
           ELSE [is_good_quality |-> VerifierGate(ratio, SnrDb(audio.rms), audio.duration_ms),
                 speech_ratio |-> ratio, snr_db |-> SnrDb(audio.rms)]

\* RobustVoiceVerifier._detect_voice_activity
VerifierDetectVoiceActivity(audio) ==
    IF audio.rms = <<>>
       THEN [is_good_quality |-> FALSE, speech_ratio |-> 0, snr_db |-> 0]
       ELSE [is_good_quality |-> VerifierGate(SpeechRatio(audio.rms), SnrDb(audio.rms),
                                              audio.duration_ms),
             speech_ratio |-> SpeechRatio(audio.rms), snr_db |-> SnrDb(audio.rms)]

\* the recording as record_sample and record_verification_sample see it
ClipOf(audio) ==
    MkClip(audio.rms # <<>>,
           IF audio.rms = <<>> THEN 0 ELSE SpeechRatio(audio.rms),
           IF audio.rms = <<>> THEN 0 ELSE SnrDb(audio.rms),
           audio.duration_ms, audio.extractable, audio.features, audio.text)

\* record_sample reaches _extract_robust_features (line 261)
RecordSampleExtracts(clip) ==
    clip.captured /\ RecorderGate(clip.speech_ratio, clip.snr_db, clip.duration_ms)

\* record_verification_sample reaches _extract_robust_features (line 397)
RecordVerificationSampleExtracts(clip) == clip.captured

\* per-frame RMS energies of the recordings tried (whole numbers)
FramePatterns ==
    {<<>>, <<0, 0, 0, 0>>, <<3, 3, 3, 3>>, <<1, 3, 1, 3>>,
     <<1, 1, 1, 3>>, <<0, 1, 2, 3>>, <<2, 2, 2, 3>>, <<5, 5, 5, 8>>,
     <<4, 4, 4, 5>>, <<0, 0, 0, 0, 0, 0, 0, 0, 0, 0, 0, 3>>}

GateAudios ==
    [rms : FramePatterns, duration_ms : {500, 1500, 5000}, extractable : BOOLEAN,
     features : {FeatA}, text : {"hello"}]

\* both paths applied to the same recording
GateCall ==
    /\ gout = None
    /\ gout' = [rec |-> RecorderDetectVoiceActivity(gin),
                ver |-> VerifierDetectVoiceActivity(gin),
                sample |-> RecordSample(ClipOf(gin)),
                sample_extracted |-> RecordSampleExtracts(ClipOf(gin)),
                vsample |-> RecordVerificationSample(ClipOf(gin)),
                vsample_extracted |-> RecordVerificationSampleExtracts(ClipOf(gin))]
    /\ UNCHANGED <<gin, sin, sout, pin, pout, fileVars, enrollVars, verifyVars,
                   adaptiveVars, audioVars, signalVars, displayVars>>

----------------------------------------------------------------------------
(* The similarity engine on a vector and the profile of its own copies *)

Copies(x, n) == [i \in 1..n |-> x]

ReflexiveInputs == [features : LiveFeatures, copies : 2..MaxSamples]

ScoreCall ==
    /\ sout = None
    /\ LET profile == CalculateProfileStatistics(Copies(sin.features, sin.copies))
           similarities == CalculateMultiMetricSimilarity(sin.features, profile)
       IN  sout' = [similarities |-> similarities,
                    nan |-> CompositeIsNaN(similarities),
                    composite_score |-> CalculateCompositeScore(similarities)]
    /\ UNCHANGED <<sin, gin, gout, pin, pout, fileVars, enrollVars, verifyVars,
                   adaptiveVars, audioVars, signalVars, displayVars>>

----------------------------------------------------------------------------
(* The aggregator on a list of samples and on a reordering of it *)

\* vectors whose values fill the mantissa
FeatBig == [FeatA EXCEPT !.f0_mean = Pow2(MantissaBits)]
FeatOne == [FeatA EXCEPT !.f0_mean = 1]

AggregateSamples == {FeatA, FeatB, FeatBig, FeatOne}

Reorder(samples, perm) == [i \in 1..Len(samples) |-> samples[perm[i]]]

AggregateInputs ==
    {[samples |-> q, perm |-> f] :
        q \in {x \in SeqsUpTo(AggregateSamples, MaxSamples) : Len(x) >= 2},
        f \in UNION {Permutations(1..n) : n \in 2..MaxSamples}}

AggregateCall ==
    /\ pout = None
    /\ pout' = [first |-> CalculateProfileStatistics(pin.samples),
                second |-> CalculateProfileStatistics(Reorder(pin.samples, pin.perm))]
    /\ UNCHANGED <<pin, gin, gout, sin, sout, fileVars, enrollVars, verifyVars,
                   adaptiveVars, audioVars, signalVars, displayVars>>

----------------------------------------------------------------------------
(* AudioInput: audio_input.py *)

\* lines 17-27: the fields after __init__(enable_voice_auth); available says
\* whether the import of VoiceRecognition worked, raises whether its
\* constructor raised
AudioInputInit(enable_voice_auth, available, raises) ==
    [available |-> available,
     enable_voice_auth |-> enable_voice_auth /\ available /\ ~raises,
     voice_recognition |-> enable_voice_auth /\ available /\ ~raises]

\* what the call self.voice_recognition.verify_voice(audio_data, user_id) at
\* line 138 can do
VerifyVoiceOutcomes == {"verified", "rejected", "raises"}

\* A recording: raw is "empty" when it holds no sample (np.max raises at
\* line 136); verdict is what verify_voice does with it; text is what the
\* recognizer makes of it ("" when it understands nothing).
Recordings ==
    [raw : {"samples", "empty"}, verdict : VerifyVoiceOutcomes,
     text : {"hello", "unicef", ""}]

\* verify_speaker with the except branch letting the speaker through
VerifySpeakerFailsOpen(obj, audio) ==
    IF ~obj.enable_voice_auth \/ ~obj.voice_recognition THEN TRUE
    ELSE audio.raw = "empty" \/ audio.verdict \in {"verified", "raises"}

\* AudioInput.verify_speaker, lines 130-148
VerifySpeaker(obj, audio) ==
    IF ~obj.enable_voice_auth \/ ~obj.voice_recognition THEN TRUE
    ELSE IF audio.raw = "empty" THEN FALSE
    ELSE audio.verdict = "verified"

\* what a method hands back: nothing yet, None, a flag, the recording, a text
NoReturn == [kind |-> "pending", flag |-> FALSE, text |-> ""]
ReturnNone == [NoReturn EXCEPT !.kind = "None"]
ReturnFlag(b) == [NoReturn EXCEPT !.kind = "flag", !.flag = b]
ReturnAudio == [NoReturn EXCEPT !.kind = "audio"]
ReturnText(t) == [NoReturn EXCEPT !.kind = "text", !.text = t]

\* apply_corrections, lines 67-73, on the words tried
ApplyCorrections(text) == IF text = "unicef" THEN "uniswap" ELSE text

\* AudioInput.transcribe, lines 109-118
Transcribe(audio) ==
    IF audio.text = "" THEN ReturnNone ELSE ReturnText(ApplyCorrections(audio.text))

NoCall ==
    [method |-> "none", pc |-> "idle", audio |-> None, ok |-> FALSE,
     ret |-> NoReturn, transcribed |-> FALSE]

AuthMethods == {"verify_speaker", "listen_with_voice_auth", "transcribe_with_voice_auth"}

\* a method is called; the recording is heard (line 160) or handed in
AudioCall(method, audio) ==
    /\ acall.pc = "idle"
    /\ acall' = [NoCall EXCEPT !.method = method, !.pc = "verify", !.audio = audio]
    /\ UNCHANGED <<audio_input, fileVars, enrollVars, verifyVars, adaptiveVars, pureVars, signalVars, displayVars>>

\* verify_speaker has answered: lines 144, 165-170 and 185-191
AudioVerified ==
    /\ acall.pc = "verify"
    /\ LET ok == VerifySpeaker(audio_input, acall.audio)
       IN  acall' =
             IF acall.method = "verify_speaker"
                THEN [acall EXCEPT !.ok = ok, !.ret = ReturnFlag(ok), !.pc = "done"]
             ELSE IF ~ok
                THEN [acall EXCEPT !.ok = ok, !.ret = ReturnNone, !.pc = "done"]
             ELSE IF acall.method = "listen_with_voice_auth"
                THEN [acall EXCEPT !.ok = ok, !.ret = ReturnAudio, !.pc = "done"]
             ELSE [acall EXCEPT !.ok = ok, !.pc = "transcribe"]
    /\ UNCHANGED <<audio_input, fileVars, enrollVars, verifyVars, adaptiveVars, pureVars, signalVars, displayVars>>

\* line 193: return self.transcribe(audio)
AudioTranscribe ==
    /\ acall.pc = "transcribe"
    /\ acall' = [acall EXCEPT !.transcribed = TRUE, !.ret = Transcribe(acall.audio),
                              !.pc = "done"]
    /\ UNCHANGED <<audio_input, fileVars, enrollVars, verifyVars, adaptiveVars, pureVars, signalVars, displayVars>>

AudioReturn ==
    /\ acall.pc = "done"
    /\ acall' = NoCall
    /\ UNCHANGED <<audio_input, fileVars, enrollVars, verifyVars, adaptiveVars, pureVars, signalVars, displayVars>>

\* set_voice_auth_enabled, lines 237-255; profile_exists is what
\* check_voice_profile_exists finds when the component is there
SetVoiceAuthEnabled(enabled, profile_exists) ==
    /\ acall.pc = "idle"
    /\ audio_input' =
          IF enabled /\ ~audio_input.available THEN audio_input
          ELSE IF enabled /\ ~(audio_input.voice_recognition /\ profile_exists)
             THEN audio_input
          ELSE [audio_input EXCEPT !.enable_voice_auth = enabled]
    /\ UNCHANGED <<acall, fileVars, enrollVars, verifyVars, adaptiveVars, pureVars, signalVars, displayVars>>

\* setup_voice_profile, lines 195-222; raises says whether the constructor
\* raised, success is what enroll_voice returned
SetupVoiceProfile(raises, success) ==
    /\ acall.pc = "idle"
    /\ audio_input' =
          IF ~audio_input.available THEN audio_input
          ELSE IF ~audio_input.voice_recognition /\ raises THEN audio_input
          ELSE [audio_input EXCEPT !.voice_recognition = TRUE,
                                   !.enable_voice_auth = success \/ @]
    /\ UNCHANGED <<acall, fileVars, enrollVars, verifyVars, adaptiveVars, pureVars, signalVars, displayVars>>

----------------------------------------------------------------------------
(* Initial states and specifications *)

Texts(n) == [i \in 1..n |-> "hello"]

\* an entry as create_voice_profile stores it for a list of samples
EntryOf(samples, user, stamp) ==
    MkEntry(CalculateProfileStatistics(samples), samples, Texts(Len(samples)), user, stamp)

\* documents left by earlier runs
DocOld == Doc([u \in {"bob"} |-> EntryOf(<<FeatB, FeatB>>, u, 0)])
Doc0 == Doc([u \in Users |-> EntryOf(<<FeatA, FeatB>>, u, 0)])

\* <<primary, backup>> as an earlier run can leave them: nothing yet, one or
\* more saves done, a save that failed on open or in the middle of the write
InitStores ==
    {<<Missing, Missing>>, <<Doc0, Missing>>, <<Doc0, DocOld>>,
     <<Missing, Doc0>>, <<Partial, Doc0>>, <<Partial, Missing>>}

\* entries written by other versions of the recorder or by hand: not a
\* mapping, no 'features' key (version 1.0), features without 'mfcc_mean'
ForeignEntries ==
    {[json |-> "other"],
     [json |-> "object", sample_count |-> 3, version |-> "1.0"],
     [json |-> "object", sample_count |-> 3, version |-> "1.0",
      features |-> [f0_mean |-> 150, voicing_ratio |-> 800]]}

StoredEntries ==
    {EntryOf(samples, "alice", 0) :
        samples \in {q \in SeqsUpTo(ProfileFeatures, MaxSamples) : Len(q) >= 2}}

\* what verify_speaker can find in the primary file
VerifyStores ==
    {Missing, Partial, Doc(EmptyUsers), DocOld}
    \cup {Doc([u \in {"alice"} |-> e]) : e \in ForeignEntries \cup StoredEntries}

----------------------------------------------------------------------------
(* _extract_robust_features of both classes on one clip *)

\* record.py line 113, verify.py line 114: shorter clips give no vector
MinSamples == 1024

\* the groups of descriptors the function computes one after another
Families == {"pitch", "cepstral", "spectral", "harmonic", "temporal"}

\* the keys of the returned mapping that each group fills
FamilyKeys(family) ==
    IF family = "pitch" THEN {"f0_mean", "voicing_ratio"}
    ELSE IF family = "cepstral" THEN {"mfcc_mean"}
    ELSE IF family = "spectral" THEN {"spectral_centroid_mean", "spectral_rolloff_mean",
                                      "spectral_bandwidth_mean"}
    ELSE IF family = "harmonic" THEN {"chroma_mean"}
    ELSE IF family = "temporal" THEN {"zcr_mean", "rms_mean", "tempo"}
    ELSE {}

\* RobustVoiceRecorder._extract_robust_features: one try around the whole
\* body; clip.features is what the library calls compute on the clip and
\* clip.fails the group whose call raises
RecorderExtractRobustFeatures(clip) ==
    IF clip.samples < MinSamples THEN None
    ELSE IF clip.fails \in Families THEN None
    ELSE clip.features

\* RobustVoiceVerifier._extract_robust_features: the same statements
VerifierExtractRobustFeatures(clip) ==
    IF clip.samples < MinSamples THEN None
    ELSE IF clip.fails \in Families THEN None
    ELSE clip.features

ExtractInputs ==
    [samples : {512, 1024, 48000},
     fails : Families \cup {"none"},
     features : {FeatA, FeatB, FeatC}]

ExtractCall ==
    /\ xout = None
    /\ xout' = [rec |-> RecorderExtractRobustFeatures(xin),
                ver |-> VerifierExtractRobustFeatures(xin)]
    /\ UNCHANGED <<xin, win, wout, fileVars, enrollVars, verifyVars, adaptiveVars,
                   pureVars, audioVars, displayVars>>

----------------------------------------------------------------------------
(* _preprocess_audio.  A buffer is described by what the steps read and     *)
(* change: its sample rate, its number of dimensions, whether every sample  *)
(* is zero, whether its two channels cancel, its dtype, and the list of     *)
(* the transformations applied to the samples so far.                       *)

\* __init__, line 20 of record.py and line 22 of verify.py: target_sr
TargetSr == 16000

\* the steps in the order of the statements, lines 43-64
PreprocessSteps == <<"resample", "mono", "normalize", "bandpass", "dc">>

\* the condition in front of each step
StepApplies(step, b, sr) ==
    IF step = "resample" THEN sr # TargetSr
    ELSE IF step = "mono" THEN b.ndim > 1
    ELSE IF step = "normalize" THEN ~b.silent
    ELSE IF step = "bandpass"
       THEN (80 * 1000) \div (TargetSr \div 2)
               < Min((8000 * 1000) \div (TargetSr \div 2), 950)
    ELSE TRUE

\* the value assigned to audio_data by each step
StepResult(step, b) ==
    IF step = "resample"
       THEN [b EXCEPT !.sr = TargetSr, !.ops = Append(@, step)]
    ELSE IF step = "mono"
       THEN [b EXCEPT !.ndim = 1, !.silent = b.silent \/ b.antiphase,
                      !.antiphase = FALSE, !.ops = Append(@, step)]
    ELSE [b EXCEPT !.ops = Append(@, step)]

RECURSIVE RunStepsSkipping(_, _, _, _)
\* a pipeline that would go on with the next step after one has raised
RunStepsSkipping(b, sr, i, fails) ==
    IF i > Len(PreprocessSteps) THEN b
    ELSE IF StepApplies(PreprocessSteps[i], b, sr) /\ fails # PreprocessSteps[i]
       THEN RunStepsSkipping(StepResult(PreprocessSteps[i], b), sr, i + 1, fails)
    ELSE RunStepsSkipping(b, sr, i + 1, fails)

RECURSIVE RunSteps(_, _, _, _)
\* lines 41-64 from step i on; a step that raises leaves audio_data as the
\* last assignment made it, and the except branch takes it from there
RunSteps(b, sr, i, fails) ==
    IF i > Len(PreprocessSteps) THEN b
    ELSE IF StepApplies(PreprocessSteps[i], b, sr)
       THEN IF fails = PreprocessSteps[i] THEN b
            ELSE RunSteps(StepResult(PreprocessSteps[i], b), sr, i + 1, fails)
    ELSE RunSteps(b, sr, i + 1, fails)

\* lines 66 and 70: both exits return audio_data.astype(np.float32)
PreprocessAudio(audio_data, sr, fails) ==
    [raised |-> FALSE,
     buffer |-> [RunSteps(audio_data, sr, 1, fails) EXCEPT !.dtype = "float32"]]

PreprocessInputs ==
    [audio_data : [sr : {16000, 44100}, ndim : {1, 2}, silent : BOOLEAN,
                   antiphase : BOOLEAN, dtype : {"float64"}, ops : {<<>>}],
     fails : {"none", "resample", "mono", "normalize", "bandpass", "dc"}]

PreprocessCall ==
    /\ wout = None
    /\ wout' = PreprocessAudio(win.audio_data, win.audio_data.sr, win.fails)
    /\ UNCHANGED <<win, xin, xout, fileVars, enrollVars, verifyVars, adaptiveVars,
                   pureVars, audioVars, displayVars>>

----------------------------------------------------------------------------
(* The display server: api_server.py.  Three threads share one             *)
(* APIEmotionalDisplay: the render loop (run), the emotion controller and  *)
(* the handler of POST /display.                                           *)

\* the keys of self.emotions, lines 76-89
Emotions == {"normal", "happy", "angry", "surprised", "sleepy", "confused",
             "excited", "grumpy", "sad", "mischievous", "sideeye", "wave"}

\* line 483: the longest duration accepted, in seconds
MaxDuration == 60

\* line 66: blink_speed, in tenths
BlinkSpeed == 3

MaxRequests == 2      \* POST /display requests received
MaxTime == 30         \* seconds the clock runs with no deadline ahead
TickSeconds == 10     \* seconds between two readings of the clock

\* duration as it comes out of the JSON body: a number, NaN, or something
\* float() refuses
Num(n) == [kind |-> "num", value |-> n]
Durations == {Num(0), Num(10), Num(60), Num(61),
              [kind |-> "nan", value |-> 0], [kind |-> "text", value |-> 0]}

Requests ==
    [json : BOOLEAN, text : {"", "hi"}, emotion : {"happy", "bogus"},
     duration : Durations]

NoRequest == [text |-> "", emotion |-> "normal", duration |-> Num(0)]

\* display_text lines 464-486: 400 when the request is refused, 0 to go on
ValidateRequest(req) ==
    IF ~req.json THEN 400
    ELSE IF req.text = "" THEN 400
    ELSE IF req.emotion \notin Emotions THEN 400
    ELSE IF req.duration.kind = "text" THEN 400
    ELSE IF req.duration.kind = "num"
            /\ (req.duration.value <= 0 \/ req.duration.value > MaxDuration) THEN 400
    ELSE 0

\* set_emotion lines 310-317: the new target_state['emotion']
SetEmotion(target, emotion) == IF emotion \in Emotions THEN emotion ELSE target

\* start_blink lines 326-330
StartBlink ==
    IF ~is_blinking
       THEN is_blinking' = TRUE /\ blink_progress' = 0
       ELSE UNCHANGED <<is_blinking, blink_progress>>

otherVars == <<fileVars, enrollVars, verifyVars, adaptiveVars, pureVars, audioVars,
               signalVars>>

\* display_text lines 463-486: a request arrives and is validated
DisplayText(req) ==
    /\ qpc = "idle"
    /\ served < MaxRequests
    /\ served' = served + 1
    /\ IF ValidateRequest(req) = 400
          THEN qresp' = 400 /\ UNCHANGED <<qpc, qreq>>
          ELSE /\ qresp' = 0
               /\ qpc' = "show"
               /\ qreq' = [text |-> req.text, emotion |-> req.emotion,
                           duration |-> req.duration]
    /\ UNCHANGED <<display_mode, text_display_until, current_text, current_emotion,
                   target_emotion, is_blinking, blink_progress, state_lock, now,
                   cpc, cnew, otherVars>>

\* show_text_with_emotion lines 111-115, under state_lock; timedelta raises
\* ValueError for NaN, the lock is released and display_text answers 500
ShowTextWithEmotion ==
    /\ qpc = "show"
    /\ state_lock = "free"
    /\ current_text' = qreq.text
    /\ current_emotion' = qreq.emotion
    /\ display_mode' = "text"
    /\ IF qreq.duration.kind = "nan"
          THEN /\ qresp' = 500
               /\ qpc' = "idle"
               /\ qreq' = NoRequest
               /\ UNCHANGED <<text_display_until, state_lock>>
          ELSE /\ text_display_until' = now + qreq.duration.value
               /\ state_lock' = "request"
               /\ qpc' = "set_emotion"
               /\ UNCHANGED <<qresp, qreq>>
    /\ UNCHANGED <<target_emotion, is_blinking, blink_progress, now, cpc, cnew, served,
                   otherVars>>

\* line 116, the end of the with block, and the answer at lines 491-496
ShowSetEmotion ==
    /\ qpc = "set_emotion"
    /\ target_emotion' = SetEmotion(target_emotion, qreq.emotion)
    /\ state_lock' = "free"
    /\ qresp' = 200
    /\ qpc' = "idle"
    /\ qreq' = NoRequest
    /\ UNCHANGED <<display_mode, text_display_until, current_text, current_emotion,
                   is_blinking, blink_progress, now, cpc, cnew, served, otherVars>>

\* update_state, once per frame of run(): lines 131-137 under state_lock,
\* lines 172-176 for the blink
UpdateState ==
    /\ state_lock = "free"
    /\ IF display_mode = "text" /\ text_display_until # 0 /\ now >= text_display_until
          THEN display_mode' = "eyes" /\ text_display_until' = 0
          ELSE UNCHANGED <<display_mode, text_display_until>>
    /\ IF is_blinking
          THEN IF blink_progress + BlinkSpeed >= 10
                  THEN blink_progress' = 10 /\ is_blinking' = FALSE
                  ELSE blink_progress' = blink_progress + BlinkSpeed /\ UNCHANGED is_blinking
          ELSE UNCHANGED <<is_blinking, blink_progress>>
    /\ UNCHANGED <<current_text, current_emotion, target_emotion, state_lock, now,
                   cpc, cnew, qpc, qreq, qresp, served, otherVars>>

\* time passes: up to MaxTime, and as long as a deadline lies ahead
Tick ==
    /\ now + TickSeconds <= MaxTime \/ (text_display_until # 0 /\ now < text_display_until)
    /\ now' = now + TickSeconds
    /\ UNCHANGED <<display_mode, text_display_until, current_text, current_emotion,
                   target_emotion, is_blinking, blink_progress, state_lock,
                   cpc, cnew, qpc, qreq, qresp, served, otherVars>>

\* emotion_controller lines 387-389: the mode is read under the lock, which
\* is released before anything is done
ControllerCheck ==
    /\ cpc = "sleep"
    /\ state_lock = "free"
    /\ cpc' = IF display_mode # "eyes" THEN "sleep" ELSE "act"
    /\ UNCHANGED <<display_mode, text_display_until, current_text, current_emotion,
                   target_emotion, is_blinking, blink_progress, state_lock, now,
                   cnew, qpc, qreq, qresp, served, otherVars>>

\* what random.random() and random.choice(emotion_list) decide in the runs
\* followed: a blink, a side-eye, or a change to one of these emotions
ControllerChoices == {"blink", "sideeye", "happy", "excited", "sleepy"}

\* lines 391-406: the branch taken, up to its first sleep
ControllerAct(choice) ==
    /\ cpc = "act"
    /\ IF choice = "blink"
          THEN StartBlink /\ cpc' = "sleep" /\ UNCHANGED <<target_emotion, cnew>>
       ELSE IF choice = "sideeye"
          THEN /\ target_emotion' = SetEmotion(target_emotion, "sideeye")
               /\ cpc' = "sideeye"
               /\ UNCHANGED <<is_blinking, blink_progress, cnew>>
          ELSE /\ StartBlink
               /\ cnew' = choice
               /\ cpc' = "change"
               /\ UNCHANGED target_emotion
    /\ UNCHANGED <<display_mode, text_display_until, current_text, current_emotion,
                   state_lock, now, qpc, qreq, qresp, served, otherVars>>

\* lines 400-401: two seconds later, back to normal
ControllerSideeyeEnd ==
    /\ cpc = "sideeye"
    /\ target_emotion' = SetEmotion(target_emotion, "normal")
    /\ cpc' = "sleep"
    /\ UNCHANGED <<display_mode, text_display_until, current_text, current_emotion,
                   is_blinking, blink_progress, state_lock, now, cnew, qpc, qreq,
                   qresp, served, otherVars>>

\* lines 407-417: half a second after the blink, the new emotion
ControllerChange ==
    /\ cpc = "change"
    /\ target_emotion' = SetEmotion(target_emotion, cnew)
    /\ cpc' = IF cnew = "excited" THEN "excited1"
              ELSE IF cnew = "sleepy" THEN "sleepy" ELSE "sleep"
    /\ UNCHANGED <<display_mode, text_display_until, current_text, current_emotion,
                   is_blinking, blink_progress, state_lock, now, cnew, qpc, qreq,
                   qresp, served, otherVars>>

\* lines 412-415: the two blinks of 'excited'
ControllerExcited ==
    /\ cpc \in {"excited1", "excited2"}
    /\ StartBlink
    /\ cpc' = IF cpc = "excited1" THEN "excited2" ELSE "sleep"
    /\ UNCHANGED <<display_mode, text_display_until, current_text, current_emotion,
                   target_emotion, state_lock, now, cnew, qpc, qreq, qresp, served,
                   otherVars>>

\* line 417: 'sleepy' rests three seconds
ControllerSleepy ==
    /\ cpc = "sleepy"
    /\ cpc' = "sleep"
    /\ UNCHANGED <<display_mode, text_display_until, current_text, current_emotion,
                   target_emotion, is_blinking, blink_progress, state_lock, now,
                   cnew, qpc, qreq, qresp, served, otherVars>>

EmotionController ==
    \/ ControllerCheck
    \/ \E choice \in ControllerChoices : ControllerAct(choice)
    \/ ControllerSideeyeEnd
    \/ ControllerChange
    \/ ControllerExcited
    \/ ControllerSleepy

----------------------------------------------------------------------------
(* Initial states and specifications *)

SignalIdle == xin = None /\ xout = None /\ win = None /\ wout = None

\* APIEmotionalDisplay.__init__ lines 27-30, 43, 64-65, 73
DisplayInit ==
    /\ display_mode = "eyes"
    /\ text_display_until = 0
    /\ current_text = ""
    /\ current_emotion = "normal"
    /\ target_emotion = "normal"
    /\ is_blinking = FALSE
    /\ blink_progress = 0
    /\ state_lock = "free"
    /\ now = 0
    /\ cpc = "sleep"
    /\ cnew = "normal"
    /\ qpc = "idle"
    /\ qreq = NoRequest
    /\ qresp = 0
    /\ served = 0

DisplayIdle == DisplayInit

EnrollIdle ==
    /\ wloc = [p \in AllProcs |-> "none"]
    /\ epc = [p \in AllProcs |-> "idle"]
    /\ euser = [p \in AllProcs |-> "alice"]
    /\ enum = [p \in AllProcs |-> 1]
    /\ valid_samples = [p \in AllProcs |-> <<>>]
    /\ transcripts = [p \in AllProcs |-> <<>>]
    /\ attempt = [p \in AllProcs |-> 0]
    /\ profiles = [p \in AllProcs |-> EmptyUsers]
    /\ eret = [p \in AllProcs |-> "none"]
    /\ clock = 0
    /\ calls = 0
    /\ start_files = [p \in AllProcs |-> <<Missing, Missing>>]
    /\ save_files = [p \in AllProcs |-> <<Missing, Missing>>]
    /\ fault = [p \in AllProcs |-> FALSE]
    /\ hist = <<>>
    /\ accepted = [p \in AllProcs |-> <<>>]

VerifyIdle ==
    /\ vpc = "idle"
    /\ vuser = "alice"
    /\ vprofile = None
    /\ vresult = NoResult
    /\ vcount = 0
    /\ vclip = None
    /\ vlog = <<>>

AdaptiveIdle ==
    /\ ain = [profile_data |-> [sample_count |-> 3], isNaN |-> FALSE,
              composite_score |-> 0, similarities |-> ZeroScores]
    /\ aout = "none"

GateIdle == gin = None /\ gout = None
EngineIdle == sin = None /\ sout = None
AggregateIdle == pin = None /\ pout = None

AudioIdle ==
    /\ audio_input = AudioInputInit(FALSE, FALSE, FALSE)
    /\ acall = NoCall

OthersIdle == GateIdle /\ EngineIdle /\ AggregateIdle /\ AudioIdle

\* enrollment by one process
Init ==
    /\ SignalIdle /\ DisplayIdle
    /\ \E st \in InitStores : primary = st[1] /\ backup = st[2]
    /\ EnrollIdle /\ VerifyIdle /\ AdaptiveIdle /\ OthersIdle

Next == \E p \in {1} : Enroll(p)

Spec == Init /\ [][Next]_vars

\* enrollment by two processes on the same file
NextConcurrent == \E p \in AllProcs : EnrollConcurrent(p)

SpecConcurrent == Init /\ [][NextConcurrent]_vars

\* verification against a store at rest
InitVerify ==
    /\ SignalIdle /\ DisplayIdle
    /\ primary \in VerifyStores
    /\ backup = Missing
    /\ EnrollIdle /\ VerifyIdle /\ AdaptiveIdle /\ OthersIdle

NextVerify ==
    \/ \E user \in Users : VerifyStart(user)
    \/ VerifyLoad
    \/ \E clip \in VerifyClips : VerifyRecord(clip)
    \/ VerifyReturn

SpecVerify == InitVerify /\ [][NextVerify]_vars

\* _adaptive_threshold applied to each argument tuple
InitAdaptive ==
    /\ SignalIdle /\ DisplayIdle
    /\ primary = Missing
    /\ backup = Missing
    /\ EnrollIdle /\ VerifyIdle /\ OthersIdle
    /\ ain \in AdaptiveInputs
    /\ aout = "none"

NextAdaptive == AdaptiveCall

SpecAdaptive == InitAdaptive /\ [][NextAdaptive]_vars

StoreAtRest == primary = Missing /\ backup = Missing /\ EnrollIdle /\ VerifyIdle

\* main() of verify.py trying again and again on a store at rest
RepeatStores ==
    {Missing, DocOld, Doc0, Doc([u \in {"alice"} |-> EntryOf(<<FeatA, FeatA, FeatB>>, u, 0)])}

InitRepeat ==
    /\ SignalIdle /\ DisplayIdle
    /\ primary \in RepeatStores
    /\ backup = Missing
    /\ EnrollIdle /\ VerifyIdle /\ AdaptiveIdle /\ OthersIdle

NextRepeat ==
    \/ \E user \in Users : VerifyStart(user)
    \/ VerifyLoad
    \/ \E clip \in RepeatClips : VerifyRecord(clip)
    \/ MainTryAgain

SpecRepeat == InitRepeat /\ [][NextRepeat]_vars

\* both quality gates applied to each recording
InitGate ==
    /\ SignalIdle /\ DisplayIdle
    /\ StoreAtRest /\ AdaptiveIdle /\ EngineIdle /\ AggregateIdle /\ AudioIdle
    /\ gin \in GateAudios
    /\ gout = None

NextGate == GateCall

SpecGate == InitGate /\ [][NextGate]_vars

\* each vector scored against the profile of its own copies
InitReflexive ==
    /\ SignalIdle /\ DisplayIdle
    /\ StoreAtRest /\ AdaptiveIdle /\ GateIdle /\ AggregateIdle /\ AudioIdle
    /\ sin \in ReflexiveInputs
    /\ sout = None

NextReflexive == ScoreCall

SpecReflexive == InitReflexive /\ [][NextReflexive]_vars

\* each list of samples aggregated in two orders
InitAggregate ==
    /\ SignalIdle /\ DisplayIdle
    /\ StoreAtRest /\ AdaptiveIdle /\ GateIdle /\ EngineIdle /\ AudioIdle
    /\ pin \in {x \in AggregateInputs : DOMAIN x.perm = 1..Len(x.samples)}
    /\ pout = None

NextAggregate == AggregateCall

SpecAggregate == InitAggregate /\ [][NextAggregate]_vars

\* an AudioInput object and the calls made on it
InitAudio ==
    /\ SignalIdle /\ DisplayIdle
    /\ StoreAtRest /\ AdaptiveIdle /\ GateIdle /\ EngineIdle /\ AggregateIdle
    /\ \E enable \in BOOLEAN, available \in BOOLEAN, raises \in BOOLEAN :
           audio_input = AudioInputInit(enable, available, raises)
    /\ acall = NoCall

NextAudio ==
    \/ \E method \in AuthMethods, audio \in Recordings : AudioCall(method, audio)
    \/ AudioVerified
    \/ AudioTranscribe
    \/ AudioReturn
    \/ \E enabled \in BOOLEAN, profile_exists \in BOOLEAN :
           SetVoiceAuthEnabled(enabled, profile_exists)
    \/ \E raises \in BOOLEAN, success \in BOOLEAN : SetupVoiceProfile(raises, success)

SpecAudio == InitAudio /\ [][NextAudio]_vars

\* _extract_robust_features applied to each clip
InitExtract ==
    /\ StoreAtRest /\ AdaptiveIdle /\ OthersIdle /\ DisplayIdle
    /\ xin \in ExtractInputs
    /\ xout = None /\ win = None /\ wout = None

NextExtract == ExtractCall

SpecExtract == InitExtract /\ [][NextExtract]_vars

\* _preprocess_audio applied to each buffer
InitPreprocess ==
    /\ StoreAtRest /\ AdaptiveIdle /\ OthersIdle /\ DisplayIdle
    /\ win \in PreprocessInputs
    /\ wout = None /\ xin = None /\ xout = None

NextPreprocess == PreprocessCall

SpecPreprocess == InitPreprocess /\ [][NextPreprocess]_vars

\* the display server: requests, the render loop, the controller, the clock
InitDisplay ==
    /\ StoreAtRest /\ AdaptiveIdle /\ OthersIdle /\ SignalIdle
    /\ DisplayInit

NextDisplay ==
    \/ \E req \in Requests : DisplayText(req)
    \/ ShowTextWithEmotion
    \/ ShowSetEmotion
    \/ UpdateState
    \/ Tick
    \/ EmotionController

SpecDisplay == InitDisplay /\ [][NextDisplay]_vars

\* the render loop runs a frame every 1/30 s, the clock advances, and a
\* handler that has started goes on to its end
SpecDisplayFair ==
    /\ InitDisplay /\ [][NextDisplay]_vars
    /\ WF_vars(UpdateState)
    /\ WF_vars(Tick)
    /\ WF_vars(ShowTextWithEmotion)
    /\ WF_vars(ShowSetEmotion)


----------------------------------------------------------------------------
(* Properties *)

Returned == vpc = "done" /\ vresult.outcome = "returned"

\* C1: verify_speaker never raises for a 'not verified' outcome: whatever the
\* store holds and whatever recording and extraction give, the call returns a
\* mapping, with verified = false and an error field in the failure cases.
C1_NotVerifiedIsReturned ==
    vpc = "done" =>
        /\ vresult.outcome = "returned"
        /\ (vresult.has_error => ~vresult.verified)

\* C2: in every returned result, verified is true exactly when the tier is
\* high, medium or low, that is exactly when the composite score exceeds the
\* cut-off of the low tier; otherwise the tier is reject or none.
C2_VerifiedIffAccepted ==
    Returned =>
        /\ vresult.verified <=> vresult.confidence \in {"high", "medium", "low"}
        /\ vresult.verified <=> (~vresult.nan /\ vresult.similarity_score > AcceptLow)
        /\ ~vresult.verified <=> vresult.confidence \in {"reject", "none"}

C2_Witness ==
    /\ Returned
    /\ vresult.verified
    /\ vresult.confidence = "low"

\* C3: an enrollment whose loop ends with 0 or 1 accepted samples fails and
\* leaves both files as they were; one that ends with exactly 2 succeeds when
\* no file operation raises, and the user's new entry is then in the store.
C3_TwoSamplesNeeded ==
    \A p \in AllProcs :
        epc[p] = "done" =>
            /\ Len(valid_samples[p]) < 2 =>
                   /\ eret[p] = "false"
                   /\ <<primary, backup>> = start_files[p]
            /\ (Len(valid_samples[p]) = 2 /\ ~fault[p]) =>
                   /\ eret[p] = "true"
                   /\ primary.kind = "doc"
                   /\ euser[p] \in DOMAIN primary.users
                   /\ primary.users[euser[p]].sample_count = 2
                   /\ primary.users[euser[p]].created_timestamp = clock

C3_Witness ==
    /\ Len(hist) = 1 /\ hist[1].samples = 1 /\ ~hist[1].ok
    /\ epc[1] = "done" /\ Len(valid_samples[1]) = 2 /\ eret[1] = "true"

InSave(p) == epc[p] \in {"rename", "open", "write", "done"} /\ Len(valid_samples[p]) >= 2

\* C5: the primary file is never seen partially written: at every step of
\* _save_profiles and after it, a failed write included, it holds the
\* complete previous document or the complete new one.
C5_PrimaryNeverPartial ==
    \A p \in AllProcs :
        (InSave(p) /\ save_files[p][1].kind = "doc") =>
            (primary = save_files[p][1] \/ primary = Doc(profiles[p]))

\* C6: after two successive successful enrollments for the same user the
\* backup holds what the primary file held after the first, not the second.
C6_BackupIsFirstEnrollment ==
    (Len(hist) = 2 /\ hist[1].ok /\ hist[2].ok /\ hist[1].user = hist[2].user) =>
        /\ hist[2].backup = hist[1].primary
        /\ backup = hist[1].primary
        /\ backup # primary

C6_Witness ==
    /\ Len(hist) = 2 /\ hist[1].ok /\ hist[2].ok
    /\ hist[1].user = hist[2].user
    /\ hist[1].backup = Partial

\* C7: two enrollments running at once do not interleave their load, rename
\* and write: once both report success the store holds the entry each wrote.
C7_NoLostUpdate ==
    \A p, q \in AllProcs :
        (/\ p # q
         /\ epc[p] = "done" /\ eret[p] = "true"
         /\ epc[q] = "done" /\ eret[q] = "true"
         /\ euser[p] # euser[q]) =>
            /\ primary.kind = "doc"
            /\ euser[p] \in DOMAIN primary.users
            /\ primary.users[euser[p]] = profiles[p][euser[p]]

Called == aout # "none"
UnshiftedTier == LadderTier(ain.isNaN, ain.composite_score, 0)
CountShift == SampleCountAdjustment(Get(ain.profile_data, "sample_count", 1))
MetricShift == KeyMetricAdjustment(ain.similarities)

\* C8: the -0.05 shift (five or more samples, or cepstral > 0.6 and pitch >
\* 0.5) makes the ladder more lenient: the tier returned is the same as or
\* better than the unshifted ladder's, for every composite score.
C8_MinusShiftIsLenient ==
    (Called /\ (CountShift < 0 \/ MetricShift < 0)) =>
        TierRank(aout) >= TierRank(UnshiftedTier)

\* C9 as stated: the +0.01 shift (fewer than three samples, or cepstral < 0.2
\* or pitch < 0.1) makes the ladder stricter: the tier returned is the same
\* as or worse than the unshifted ladder's, for every composite score.
C9_PlusShiftIsStricter ==
    (Called /\ (CountShift > 0 \/ MetricShift > 0)) =>
        TierRank(aout) <= TierRank(UnshiftedTier)

\* C9 amended: the +0.01 shift, when no -0.05 shift applies with it, makes
\* the ladder more lenient: the tier returned is the same as or better than
\* the unshifted ladder's, for every composite score.
C9_PlusShiftIsLenient ==
    (Called /\ (CountShift > 0 \/ MetricShift > 0) /\ CountShift >= 0 /\ MetricShift >= 0) =>
        TierRank(aout) >= TierRank(UnshiftedTier)

C9_Witness ==
    /\ Called
    /\ CountShift > 0 /\ MetricShift >= 0
    /\ TierRank(aout) > TierRank(UnshiftedTier)

\* C10: the composite score is the sum of the six scores weighted 0.40, 0.20,
\* 0.15, 0.15, 0.05, 0.05 (together 1.0) and, for every live feature set and
\* stored profile, the score verification reports lies in [0, 1].
C10_CompositeInUnitInterval ==
    /\ W_mfcc + W_f0 + W_spectral + W_temporal + W_chroma + W_voicing = 100
    /\ (Returned /\ ~vresult.nan) =>
           (vresult.similarity_score >= 0 /\ vresult.similarity_score <= 100000)

Scored == sout # None

\* C11: the similarity engine is reflexive: a feature vector scored against
\* the profile aggregated from copies of itself gets a composite score of at
\* least 0.95.
C11_ReflexiveScore ==
    Scored => (~sout.nan /\ sout.composite_score >= 95000)

Gated == gout # None

\* C12: the recorder's gate is at least as strict as the verifier's: every
\* recording that passes the recorder's gate passes the verifier's gate.
C12_RecorderGateIsStricter ==
    Gated => (gout.rec.is_good_quality => gout.ver.is_good_quality)

IsSilence(audio) == audio.rms # <<>> /\ \A i \in 1..Len(audio.rms) : audio.rms[i] = 0

\* C13: a recording of all-zero samples has speech ratio 0 and fails the gate
\* in the recorder and in the verifier, and record_sample never returns it as
\* a valid sample.
C13_SilenceIsRejected ==
    (Gated /\ IsSilence(gin)) =>
        /\ gout.rec.speech_ratio = 0 /\ ~gout.rec.is_good_quality
        /\ gout.ver.speech_ratio = 0 /\ ~gout.ver.is_good_quality
        /\ ~gout.sample.is_valid /\ gout.sample.features = None

C13_Witness ==
    /\ Gated /\ IsSilence(gin)
    /\ gin.duration_ms >= RecMinSpeechDuration /\ gin.extractable
    /\ gout.sample.text = "[Low quality recording]"

\* C14: create_voice_profile reports failure for lack of samples only when
\* the attempt cap of 3 x num_samples is exhausted with fewer than 2 accepted
\* samples, for every num_samples >= 1.
C14_FailureOnlyAtCap ==
    \A p \in AllProcs :
        (epc[p] = "done" /\ eret[p] = "false" /\ ~fault[p]) =>
            /\ Len(valid_samples[p]) < 2
            /\ attempt[p] = 3 * enum[p]

Building(p) == epc[p] \in {"save", "rename", "open", "write", "done"} /\ eret[p] # "false"

\* C15: every profile create_voice_profile writes has sample_count >= 2,
\* equal to the number of samples aggregated and of transcripts stored, and
\* each aggregated sample passed the quality gate and has a non-empty
\* feature vector.
C15_ProfileFromAcceptedSamples ==
    /\ \A p \in AllProcs :
          Building(p) =>
              LET entry == profiles[p][euser[p]]
              IN  /\ entry.sample_count >= 2
                  /\ entry.sample_count = Len(accepted[p])
                  /\ entry.sample_count = Len(entry.transcripts)
                  /\ entry.features = CalculateProfileStatistics(valid_samples[p])
                  /\ \A i \in 1..Len(accepted[p]) :
                        /\ accepted[p][i].captured /\ accepted[p][i].extractable
                        /\ RecorderGate(accepted[p][i].speech_ratio, accepted[p][i].snr_db,
                                        accepted[p][i].duration_ms)
                        /\ valid_samples[p][i] = accepted[p][i].features
                        /\ valid_samples[p][i] # None
                        /\ DOMAIN valid_samples[p][i] # {}
    /\ primary.kind = "doc" =>
          \A u \in DOMAIN primary.users :
              /\ primary.users[u].sample_count >= 2
              /\ primary.users[u].sample_count = Len(primary.users[u].transcripts)

C15_Witness ==
    /\ epc[1] = "done" /\ eret[1] = "true"
    /\ attempt[1] > Len(accepted[1])
    /\ primary.kind = "doc"
    /\ primary.users[euser[1]].created_timestamp = clock

SameInputs(a, b) ==
    /\ a.clip # None /\ b.clip # None
    /\ a.clip.captured /\ b.clip.captured
    /\ a.clip.extractable /\ b.clip.extractable
    /\ a.clip.features = b.clip.features
    /\ a.profile = b.profile

SameOutcome(a, b) ==
    /\ a.result.outcome = b.result.outcome
    /\ a.result.verified = b.result.verified
    /\ a.result.confidence = b.result.confidence
    /\ a.result.similarity_score = b.result.similarity_score
    /\ a.result.nan = b.result.nan
    /\ a.result.detailed_scores = b.result.detailed_scores

\* C16: verification persists nothing: no step of verify_speaker changes the
\* profile file or its backup, and two calls with the same live features and
\* stored profile return the same verified flag, tier and scores.
C16_VerificationIsPure ==
    /\ [][primary' = primary /\ backup' = backup]_vars
    /\ [](\A i, j \in DOMAIN vlog : SameInputs(vlog[i], vlog[j]) => SameOutcome(vlog[i], vlog[j]))

C16_Witness ==
    /\ Len(vlog) = 2
    /\ SameInputs(vlog[1], vlog[2])
    /\ vlog[1].clip # vlog[2].clip
    /\ vlog[1].result.verified
    /\ primary.kind = "doc"

Aggregated == pout # None

\* C17: the aggregator is order-independent: every reordering of a list of
\* two or more samples gives the same profile, key by key and value by value.
C17_OrderIndependent ==
    Aggregated => pout.first = pout.second

Guarded ==
    /\ audio_input.enable_voice_auth /\ audio_input.voice_recognition
    /\ acall.method \in {"listen_with_voice_auth", "transcribe_with_voice_auth"}

SpeakerRefused == acall.audio.raw = "empty" \/ acall.audio.verdict # "verified"

\* C18: with voice authentication on and the component present,
\* listen_with_voice_auth and transcribe_with_voice_auth return None for a
\* recording whose verification failed or raised, and transcription is
\* reached only after verification succeeded.
C18_NoOutputWithoutVerification ==
    Guarded =>
        /\ acall.pc \in {"transcribe", "done"} /\ SpeakerRefused =>
              /\ ~acall.transcribed
              /\ acall.pc = "done"
              /\ acall.ret = ReturnNone
        /\ (acall.pc = "transcribe" \/ acall.transcribed) =>
              /\ acall.ok
              /\ acall.audio.verdict = "verified"

C18_Witness ==
    /\ Guarded
    /\ acall.method = "transcribe_with_voice_auth"
    /\ acall.pc = "done"
    /\ acall.audio.verdict = "raises" /\ acall.audio.text = "hello"
    /\ acall.ret = ReturnNone

\* C19: AudioInput.verify_speaker returns True when voice authentication is
\* off or the component is absent; otherwise it returns True only if the
\* component reports the speaker verified, and False when verification
\* fails or anything raises.
C19_VerifySpeakerResult ==
    (acall.method = "verify_speaker" /\ acall.pc = "done") =>
        /\ acall.ret.kind = "flag"
        /\ (~audio_input.enable_voice_auth \/ ~audio_input.voice_recognition) => acall.ret.flag
        /\ (audio_input.enable_voice_auth /\ audio_input.voice_recognition) =>
              /\ acall.ret.flag => (acall.audio.raw = "samples"
                                    /\ acall.audio.verdict = "verified")
              /\ (acall.audio.raw = "empty" \/ acall.audio.verdict \in {"rejected", "raises"})
                    => ~acall.ret.flag

C19_Witness ==
    /\ acall.method = "verify_speaker" /\ acall.pc = "done"
    /\ audio_input.enable_voice_auth /\ audio_input.voice_recognition
    /\ acall.audio.verdict = "raises"
    /\ acall.ret = ReturnFlag(FALSE)

FailsRecorderGate(audio) == audio.rms # <<>> /\ ~RecorderDetectVoiceActivity(audio).is_good_quality
FailsVerifierGate(audio) == audio.rms # <<>> /\ ~VerifierDetectVoiceActivity(audio).is_good_quality

\* C20: a recording that fails the quality gate is dropped by record_sample
\* before feature extraction and never becomes a sample, while
\* record_verification_sample flags it (is_good_quality false in the quality
\* info) and still extracts its features for scoring.
C20_GateFailureOnTwoPaths ==
    Gated =>
        /\ FailsRecorderGate(gin) =>
              /\ ~gout.sample_extracted
              /\ ~gout.sample.is_valid /\ gout.sample.features = None
              /\ gout.sample.text = "[Low quality recording]"
        /\ FailsVerifierGate(gin) =>
              /\ gout.vsample.quality # NoQuality
              /\ ~gout.vsample.quality.is_good_quality
              /\ gout.vsample_extracted
              /\ gin.extractable => gout.vsample.features = gin.features

C20_Witness ==
    /\ Gated
    /\ FailsRecorderGate(gin) /\ FailsVerifierGate(gin)
    /\ gin.extractable
    /\ gout.sample.features = None
    /\ gout.vsample.features = gin.features

\* C23: the enrollment loop ends within 3 x num_samples attempts whatever is
\* accepted or rejected and whatever the retry answer: every iteration adds
\* one to the attempt count, the count never passes 3 x num_samples, and the
\* number of accepted samples never passes num_samples.
C23_LoopIsBounded ==
    [][\A p \in AllProcs :
          /\ (epc[p] = "loop" /\ epc'[p] = "loop" /\ valid_samples'[p] # valid_samples[p])
                => attempt'[p] = attempt[p] + 1
          /\ (epc'[p] = "loop" /\ attempt'[p] # attempt[p])
                => (attempt'[p] = attempt[p] + 1 \/ attempt'[p] = 0)
          /\ attempt'[p] <= 3 * enum'[p]
          /\ Len(valid_samples'[p]) <= enum'[p]
          /\ (epc[p] = "loop" /\ attempt[p] = 3 * enum[p]) => epc'[p] # "loop"]_vars

C23_Witness ==
    \E p \in AllProcs :
        /\ epc[p] = "done" /\ eret[p] = "false"
        /\ enum[p] = 2
        /\ attempt[p] = 6
        /\ Len(valid_samples[p]) = 1

\* the last complete document written before the files were left as pf, bf
LatestSaved(pf, bf) ==
    IF pf.kind = "doc" THEN pf.users
    ELSE IF bf.kind = "doc" THEN bf.users
    ELSE EmptyUsers

Recoverable(u, e, pf, bf) ==
    \/ pf.kind = "doc" /\ u \in DOMAIN pf.users /\ pf.users[u] = e
    \/ bf.kind = "doc" /\ u \in DOMAIN bf.users /\ bf.users[u] = e

\* C24: whatever saves fail and succeed, a user whose latest enrollment was
\* saved still has that profile readable from the primary file or from the
\* backup after the next enrollment (of anybody) has returned.
C24_SavedProfilesStayRecoverable ==
    Len(hist) = 2 =>
        LET saved == LatestSaved(hist[1].primary, hist[1].backup)
        IN  \A u \in DOMAIN saved :
                (hist[2].ok /\ u = hist[2].user)
                \/ Recoverable(u, saved[u], hist[2].primary, hist[2].backup)

\* C25: when an enrollment for a user has been saved, the stored document
\* holds for that user exactly the entry built from the new samples, and for
\* every other user the entry the store held when the enrollment began.
C25_EnrollmentReplacesWholesale ==
    \A p \in AllProcs :
        (epc[p] = "done" /\ eret[p] = "true") =>
            LET before == LoadProfiles(start_files[p][1])
            IN  /\ primary.kind = "doc"
                /\ DOMAIN primary.users = DOMAIN before \cup {euser[p]}
                /\ \A u \in DOMAIN before \ {euser[p]} : primary.users[u] = before[u]
                /\ primary.users[euser[p]] =
                       MkEntry(CalculateProfileStatistics(valid_samples[p]),
                               valid_samples[p], transcripts[p], euser[p], clock)

C25_Witness ==
    \E p \in AllProcs :
        /\ epc[p] = "done" /\ eret[p] = "true"
        /\ euser[p] = "alice"
        /\ start_files[p][1] = Doc0
        /\ primary.users["alice"].features # Doc0.users["alice"].features
        /\ primary.users["alice"].created_timestamp # Doc0.users["alice"].created_timestamp
        /\ primary.users["bob"] = Doc0.users["bob"]

\* C26: with a zero adjustment the tier _adaptive_threshold returns equals
\* the tier of verify_speaker's fixed ladder, for every composite score.
C26_LaddersAgree ==
    (Called /\ CountShift + MetricShift = 0) =>
        aout = ConfidenceLevel(ain.isNaN, ain.composite_score)

\* C27: when _calculate_multi_metric_similarity raises inside (a required
\* feature is missing from the live vector or from the stored profile), the
\* six scores are 0, the composite score is 0 and verify_speaker returns
\* verified = false with tier reject.
C27_ScoringFailsClosed ==
    (/\ Returned /\ ~vresult.has_error
     /\ vclip # None /\ vprofile # None
     /\ "features" \in DOMAIN vprofile
     /\ SimilarityRaises(vclip.features, vprofile.features)) =>
        /\ \A k \in {"mfcc_score", "f0_score", "spectral_score", "chroma_score",
                     "temporal_score", "voicing_score"} : vresult.detailed_scores[k] = 0
        /\ vresult.similarity_score = 0
        /\ ~vresult.nan
        /\ ~vresult.verified
        /\ vresult.confidence = "reject"

C27_Witness ==
    /\ Returned /\ ~vresult.has_error
    /\ vclip # None /\ vprofile # None
    /\ "features" \in DOMAIN vprofile
    /\ "mfcc_mean" \notin DOMAIN vprofile.features
    /\ "mfcc_mean" \in DOMAIN vclip.features
    /\ vresult.confidence = "reject"

\* C28: on every recording the recorder's and the verifier's
\* _detect_voice_activity return the same speech_ratio and the same snr_db,
\* whatever their verdicts, and each returns what it returns for that
\* recording on any other call.
C28_GatesShareComputation ==
    Gated =>
        /\ gout.rec.speech_ratio = gout.ver.speech_ratio
        /\ gout.rec.snr_db = gout.ver.snr_db
        /\ gout.rec = RecorderDetectVoiceActivity(gin)
        /\ gout.ver = VerifierDetectVoiceActivity(gin)

C28_Witness ==
    /\ Gated
    /\ gout.rec.speech_ratio > 0 /\ gout.rec.snr_db > 0
    /\ gout.rec.speech_ratio = gout.ver.speech_ratio
    /\ ~gout.rec.is_good_quality /\ gout.ver.is_good_quality

Extracted == xout # None

\* zeros, or the zero vector, under a key of the mapping
IsNeutralDefault(k, v) ==
    IF k \in {"mfcc_mean", "chroma_mean"} THEN v = <<0, 0>> ELSE v = 0

\* the vector r has defaults for the family that failed, values for the rest
DegradedVector(r, clip) ==
    /\ r # None
    /\ \A k \in DOMAIN clip.features :
          IF k \in FamilyKeys(clip.fails)
             THEN IsNeutralDefault(k, r[k])
             ELSE r[k] = clip.features[k]

\* C21: when one sub-extractor (pitch, cepstral, spectral, harmonic or
\* temporal) fails on a clip of at least 1024 samples, the recorder and the
\* verifier still return a feature vector, with zeros for the failed family
\* and the computed values for the others.
C21_ExtractionDegradesGracefully ==
    (Extracted /\ xin.samples >= MinSamples /\ xin.fails \in Families) =>
        /\ DegradedVector(xout.rec, xin)
        /\ DegradedVector(xout.ver, xin)

Preprocessed == wout # None

\* position of a step in the pipeline
StepIndex(step) == CHOOSE i \in 1..Len(PreprocessSteps) : PreprocessSteps[i] = step

\* the steps whose condition holds for the buffer handed in
Due(w) ==
    {"bandpass", "dc"}
    \cup (IF w.audio_data.sr # TargetSr THEN {"resample"} ELSE {})
    \cup (IF w.audio_data.ndim > 1 THEN {"mono"} ELSE {})
    \cup (IF w.audio_data.silent \/ (w.audio_data.ndim > 1 /\ w.audio_data.antiphase)
             THEN {} ELSE {"normalize"})

\* C22: _preprocess_audio always returns: the steps applied to the buffer it
\* returns are in the order resample, mono-mix, normalize, bandpass, DC
\* removal, they are all the steps due when none fails, and when a step
\* fails they are exactly the due steps before it.
C22_PreprocessReturnsLastCompleted ==
    Preprocessed =>
        LET ops  == wout.buffer.ops
            done == {ops[i] : i \in 1..Len(ops)}
        IN  /\ ~wout.raised
            /\ wout.buffer.dtype = "float32"
            /\ \A i, j \in 1..Len(ops) : i < j => StepIndex(ops[i]) < StepIndex(ops[j])
            /\ IF win.fails \in Due(win)
                  THEN done = {st \in Due(win) : StepIndex(st) < StepIndex(win.fails)}
                  ELSE done = Due(win)

C22_Witness ==
    /\ Preprocessed
    /\ win.fails = "bandpass"
    /\ win.audio_data.sr = 44100 /\ win.audio_data.ndim = 2
    /\ wout.buffer.ops = <<"resample", "mono", "normalize">>
    /\ wout.buffer.sr = TargetSr /\ wout.buffer.ndim = 1

\* C29: under every interleaving of the controller, the render loop and
\* POST /display, no step of the emotion controller changes the target
\* emotion or starts a blink while display_mode is 'text'.
C29_ControllerOnlyInEyesMode ==
    [][(cpc' # cpc /\ display_mode = "text") =>
          /\ target_emotion' = target_emotion
          /\ (is_blinking' => is_blinking)]_vars

\* C30: a request answered 200 leaves the display in text mode with a
\* deadline; a request answered 400 or 500 leaves mode, text, emotion and
\* deadline as they were; display_mode is 'text' only while a deadline is
\* set; and once requests have stopped the render loop brings the display
\* back to 'eyes' with the deadline cleared, for good.
C30_TextModeExpires ==
    /\ [][(qresp' = 200 /\ qresp # 200) =>
             (display_mode' = "text" /\ text_display_until' # 0)]_vars
    /\ [][(served' # served \/ qpc' # qpc) /\ qresp' \in {400, 500} =>
             UNCHANGED <<display_mode, current_text, current_emotion,
                         text_display_until>>]_vars
    /\ []((state_lock = "free" /\ display_mode = "text") => text_display_until # 0)
    /\ <>[](display_mode = "eyes" /\ text_display_until = 0)

====
